---- MODULE Spec2Model ----
(***************************************************************************)
(* DevCal: the Neo4j graph store (lib/neo4j.js), the staleness predicates  *)
(* of the MCP server and the calendar UI, and the monthly skill snapshot.   *)
(*                                                                         *)
(* The graph is modelled as Neo4j holds it: Task nodes have an identity of  *)
(* their own (CREATE never looks at the id property), Commit, Skill, File   *)
(* and Month nodes are keyed by the property they are MERGEd on, and every  *)
(* relationship type is a bag of (start, end) pairs, so that a duplicate    *)
(* relationship is a state the model can express.                           *)
(*                                                                         *)
(* Time is counted in ticks; TicksPerHour ticks make one hour.              *)
(***************************************************************************)
EXTENDS Integers, Sequences, FiniteSets, Bags, TLC

\* ------------------------------------------------------------------------
\* Bounds
\* ------------------------------------------------------------------------
MaxTaskNodes == 3
MaxDeps == 3
MaxTime == 2

None == "none"

TaskNodes == 1..MaxTaskNodes
TaskIds == {"t1", "t2"}
Times == 1..MaxTime

\* ------------------------------------------------------------------------
\* Texts (task names, commit messages) and file names
\* ------------------------------------------------------------------------
\* A text is known by the pattern alternatives it contains as substrings
\* (case-insensitively); that is all extractSkills looks at.
TextWords(text) ==
  CASE text = "Write unit tests" -> {"test"}
    [] text = "Build login api" -> {"login", "api"}
    [] text = "Fix auth session test" -> {"auth", "session", "test"}
    [] text = "Deploy release" -> {}
    [] OTHER -> {}

\* skillPatterns, in the order of the object literal
skillPatterns ==
  << [skill |-> "react", alts |-> {"react", "jsx", "component", "hook", "usestate", "useeffect"}],
     [skill |-> "css", alts |-> {"css", "style", "tailwind", "sass", "scss"}],
     [skill |-> "typescript", alts |-> {"typescript", ".ts", "type ", "interface "}],
     [skill |-> "javascript", alts |-> {"javascript", ".js", "function", "const", "let", "var"}],
     [skill |-> "nodejs", alts |-> {"node", "express", "api", "server", "endpoint"}],
     [skill |-> "database", alts |-> {"database", "db", "sql", "query", "schema", "model"}],
     [skill |-> "neo4j", alts |-> {"neo4j", "cypher", "graph", "relationship"}],
     [skill |-> "authentication", alts |-> {"auth", "login", "password", "jwt", "token", "session"}],
     [skill |-> "testing", alts |-> {"test", "spec", "jest", "mocha", "assert", "expect"}],
     [skill |-> "api", alts |-> {"api", "rest", "graphql", "fetch", "axios", "endpoint"}] >>

\* extractSkills(text): the skills whose pattern matches, in table order
extractSkills(text) ==
  LET hit(p) == p.alts \cap TextWords(text) # {}
      hits == SelectSeq(skillPatterns, hit)
  IN  [i \in 1..Len(hits) |-> hits[i].skill]

\* ------------------------------------------------------------------------
\* State
\* ------------------------------------------------------------------------
VARIABLES
  tasks,          \* Task nodes: node identity -> properties
  dependsOn,      \* (Task)-[:DEPENDS_ON]->(Task), bag of <<node, node>>
  requiresSkill,  \* (Task)-[:REQUIRES_SKILL]->(Skill), bag of <<node, skill>>
  skills,         \* Skill nodes, by name
  commits,        \* Commit nodes: hash -> properties
  files,          \* File nodes, by name
  modifies,       \* (Commit)-[:MODIFIES]->(File), bag of <<hash, file>>
  demonstrates,   \* (Commit)-[:DEMONSTRATES]->(Skill), bag of <<hash, skill>>
  implements,     \* (Commit)-[:IMPLEMENTS]->(Task), bag of <<hash, node>>
  hasSkillLevel,  \* (Month)-[:HAS_SKILL_LEVEL]->(Skill), bag of edges with attributes
  taskIdUnique,   \* the task_id uniqueness constraint is installed
  now,            \* the clock, in ticks
  mockTasks,      \* the in-memory task list of demo mode
  lastOp,         \* the operation that ran last, with its arguments
  result,         \* what it returned
  trav,           \* a variable-length match in progress
  driver,         \* the memoized driver handle, if any
  handles,        \* the driver handles created so far: "open" or "closed"
  calls,          \* the closeDriver and runQuery calls in flight
  modified        \* (Commit)-[:MODIFIED]->(File) of the analysis script, bag of <<hash, file>>

graph == <<tasks, dependsOn, requiresSkill, skills, commits, files, modifies,
           demonstrates, implements, hasSkillLevel>>
connection == <<driver, handles, calls>>
vars == <<tasks, dependsOn, requiresSkill, skills, commits, files, modifies,
          demonstrates, implements, hasSkillLevel, taskIdUnique, now,
          mockTasks, lastOp, result, trav, driver, handles, calls, modified>>

Idle == [pc |-> "idle"]

Init ==
  /\ driver = << >> /\ handles = << >> /\ calls = << >> /\ modified = EmptyBag
  /\ tasks = << >>
  /\ dependsOn = EmptyBag
  /\ requiresSkill = EmptyBag
  /\ skills = {}
  /\ commits = << >>
  /\ files = {}
  /\ modifies = EmptyBag
  /\ demonstrates = EmptyBag
  /\ implements = EmptyBag
  /\ hasSkillLevel = << >>
  /\ taskIdUnique = FALSE
  /\ now = 1
  /\ mockTasks = << >>
  /\ lastOp = [name |-> "init"]
  /\ result = None
  /\ trav = Idle

\* ------------------------------------------------------------------------
\* Cypher building blocks
\* ------------------------------------------------------------------------
Range(s) == {s[i] : i \in DOMAIN s}
Min(a, b) == IF a <= b THEN a ELSE b

\* MERGE (a)-[:R]->(b) with both ends bound: creates the relationship only
\* when none exists between the two nodes.
MergeRel(bag, e) == IF BagIn(e, bag) THEN bag ELSE bag (+) SetToBag({e})

\* The MERGE above, executed once per row of a row list
RECURSIVE MergeRels(_, _)
MergeRels(bag, rows) ==
  IF rows = << >> THEN bag
  ELSE MergeRels(MergeRel(bag, Head(rows)), Tail(rows))

\* Some enumeration of a finite set as a row list (row order is immaterial
\* to what a write leaves behind)
RECURSIVE SetToSeq(_)
SetToSeq(S) ==
  IF S = {} THEN << >>
  ELSE LET x == CHOOSE y \in S : TRUE IN <<x>> \o SetToSeq(S \ {x})

\* The relationship instances of a bag: <<start, end, copy number>>
RelInstances(bag) ==
  UNION { { <<e[1], e[2], k>> : k \in 1..CopiesIn(e, bag) } : e \in BagToSet(bag) }

\* (x)-[:R*]->(t): every path of length >= 1 into `trail` that uses no
\* relationship instance twice (Cypher's relationship uniqueness).
RECURSIVE ExtendTrails(_, _)
ExtendTrails(trail, rels) ==
  {trail} \cup
  UNION { ExtendTrails(<<r>> \o trail, rels \ {r}) :
            r \in {x \in rels : x[2] = trail[1][1]} }

DirectTrailsInto(bag, t) ==
  { <<r>> : r \in {x \in RelInstances(bag) : x[2] = t} }

TrailsInto(bag, t) ==
  UNION { ExtendTrails(<<r>>, RelInstances(bag) \ {r}) :
            r \in {x \in RelInstances(bag) : x[2] = t} }

\* ORDER BY key ASC over a set of rows (key: row -> sort value): ties come
\* out in any order
OrderByAsc(S, key) ==
  { seq \in [1..Cardinality(S) -> S] :
      /\ \A i, j \in 1..Cardinality(S) : i # j => seq[i] # seq[j]
      /\ \A i, j \in 1..Cardinality(S) : i < j => key[seq[i]] <= key[seq[j]] }

OrderByDesc(S, key) ==
  { seq \in [1..Cardinality(S) -> S] :
      /\ \A i, j \in 1..Cardinality(S) : i # j => seq[i] # seq[j]
      /\ \A i, j \in 1..Cardinality(S) : i < j => key[seq[i]] >= key[seq[j]] }

Limit(seq, n) == SubSeq(seq, 1, Min(n, Len(seq)))

TaskNodesWithId(taskId) == {n \in DOMAIN tasks : tasks[n].id = taskId}

\* ------------------------------------------------------------------------
\* Task operations (lib/neo4j.js)
\* ------------------------------------------------------------------------
\* convertTaskProperties: the node's properties as the caller gets them
\* (rows[0]?.t?.properties is << >> when the query returned no row)
convertTaskProperties(props) ==
  IF props = << >> THEN None
  ELSE [id |-> props[1].id, name |-> props[1].name, status |-> props[1].status,
        startTime |-> props[1].startTime, endTime |-> props[1].endTime,
        updatedAt |-> props[1].updatedAt]

\* the task_id constraint rejects a second node with a stored id
createTaskFails(task) == taskIdUnique /\ TaskNodesWithId(task.id) # {}

newTaskProperties(task) ==
  [id |-> task.id, name |-> task.name, status |-> "pending",
   startTime |-> task.startTime, endTime |-> task.endTime, updatedAt |-> << >>]

\* RETURN t yields one row per skill: none for an empty list
createTaskRows(task) ==
  IF extractSkills(task.name) = << >> THEN << >> ELSE <<newTaskProperties(task)>>

\* CREATE (t:Task {...}) WITH t UNWIND $skills MERGE (s:Skill) MERGE (t)-[:REQUIRES_SKILL]->(s)
createTaskWrites(task) ==
  LET sk == extractSkills(task.name)
      n == CHOOSE m \in TaskNodes \ DOMAIN tasks :
             \A k \in TaskNodes \ DOMAIN tasks : m <= k
      rows == [i \in 1..Len(sk) |-> <<n, sk[i]>>]
  IN  /\ tasks' = (n :> newTaskProperties(task)) @@ tasks
      /\ skills' = skills \cup Range(sk)
      /\ requiresSkill' = MergeRels(requiresSkill, rows)

createTask(task) ==
  /\ trav = Idle
  /\ TaskNodes \ DOMAIN tasks # {}
  /\ lastOp' = [name |-> "createTask", arg |-> task,
                returned |-> IF createTaskFails(task) THEN << >> ELSE createTaskRows(task)]
  /\ IF createTaskFails(task)
     THEN \* the constraint fails the query; nothing is written
          /\ result' = "error"
          /\ UNCHANGED <<tasks, skills, requiresSkill>>
     ELSE /\ createTaskWrites(task)
          /\ result' = convertTaskProperties(createTaskRows(task))
  /\ UNCHANGED <<dependsOn, commits, files, modifies, demonstrates, implements,
                 hasSkillLevel, taskIdUnique, now, mockTasks, trav, connection, modified>>

\* MATCH (t:Task {id: $id}) SET t.status = $status, t.updatedAt = datetime()
updateTaskStatusWrites(taskId, status) ==
  tasks' = [n \in DOMAIN tasks |->
              IF n \in TaskNodesWithId(taskId)
              THEN [tasks[n] EXCEPT !.status = status, !.updatedAt = <<now>>]
              ELSE tasks[n]]

updateTaskStatusRows(taskId) ==
  LET hit == TaskNodesWithId(taskId)
  IN  IF hit = {} THEN << >> ELSE <<tasks'[CHOOSE n \in hit : TRUE]>>

updateTaskStatus(taskId, status) ==
  /\ trav = Idle
  /\ updateTaskStatusWrites(taskId, status)
  /\ lastOp' = [name |-> "updateTaskStatus", arg |-> <<taskId, status>>]
  /\ result' = convertTaskProperties(updateTaskStatusRows(taskId))
  /\ UNCHANGED <<dependsOn, requiresSkill, skills, commits, files, modifies,
                 demonstrates, implements, hasSkillLevel, taskIdUnique, now,
                 mockTasks, trav, connection, modified>>

\* MATCH (t1:Task {id: $taskId}) MATCH (t2:Task {id: $dependsOnTaskId})
addTaskDependencyRows(taskId, dependsOnTaskId) ==
  SetToSeq(TaskNodesWithId(taskId) \X TaskNodesWithId(dependsOnTaskId))

addTaskDependency(taskId, dependsOnTaskId) ==
  LET rows == addTaskDependencyRows(taskId, dependsOnTaskId)
  IN  /\ trav = Idle
      /\ dependsOn' = MergeRels(dependsOn, rows)
      /\ BagCardinality(dependsOn') <= MaxDeps
      /\ lastOp' = [name |-> "addTaskDependency", arg |-> <<taskId, dependsOnTaskId>>]
      /\ result' = Len(rows)
      /\ UNCHANGED <<tasks, requiresSkill, skills, commits, files, modifies,
                     demonstrates, implements, hasSkillLevel, taskIdUnique, now,
                     mockTasks, trav, connection, modified>>

\* initializeDatabase: the task_id constraint is created unless duplicates
\* already exist (the failure is caught and ignored)
initializeDatabase ==
  /\ trav = Idle
  /\ taskIdUnique' =
       (taskIdUnique \/ \A m, n \in DOMAIN tasks : tasks[m].id = tasks[n].id => m = n)
  /\ lastOp' = [name |-> "initializeDatabase"]
  /\ result' = None
  /\ UNCHANGED <<graph, now, mockTasks, trav, connection, modified>>

\* ------------------------------------------------------------------------
\* Dependency engine
\* ------------------------------------------------------------------------
\* MATCH (t:Task {id}) MATCH (blocked:Task)-[:DEPENDS_ON*]->(t)
\* WHERE blocked.status <> 'completed'
BlockedRows(taskId) ==
  { row \in UNION { {<<t, trail>> : trail \in TrailsInto(dependsOn, t)} :
                     t \in TaskNodesWithId(taskId) } :
      tasks[row[2][1][1]].status # "completed" }

\* RETURN DISTINCT blocked ORDER BY blocked.startTime
getBlockedTasksResults(taskId) ==
  LET blocked == { row[2][1][1] : row \in BlockedRows(taskId) }
      startTime == [n \in blocked |-> tasks[n].startTime]
  IN  OrderByAsc(blocked, startTime)

getBlockedTasks(taskId) ==
  /\ trav = Idle
  /\ \E seq \in getBlockedTasksResults(taskId) : result' = seq
  /\ lastOp' = [name |-> "getBlockedTasks", arg |-> taskId]
  /\ UNCHANGED <<graph, taskIdUnique, now, mockTasks, trav, connection, modified>>

CriticalPathLimit == 10

\* count(DISTINCT downstream) over the incomplete tasks with a path into t
blockCount(t) ==
  Cardinality({ trail[1][1] : trail \in
                  {tr \in TrailsInto(dependsOn, t) :
                     tasks[tr[1][1]].status # "completed"} })

\* ORDER BY blockCount DESC LIMIT 10
getCriticalPathResults ==
  LET incomplete == {t \in DOMAIN tasks : tasks[t].status # "completed"}
      rows == { [task |-> t, blocksCount |-> blockCount(t)] : t \in incomplete }
      key == [r \in rows |-> r.blocksCount]
  IN  { Limit(seq, CriticalPathLimit) : seq \in OrderByDesc(rows, key) }

getCriticalPath ==
  /\ trav = Idle
  /\ \E seq \in getCriticalPathResults : result' = seq
  /\ lastOp' = [name |-> "getCriticalPath"]
  /\ UNCHANGED <<graph, taskIdUnique, now, mockTasks, trav, connection, modified>>

\* ------------------------------------------------------------------------
\* Specification of the dependency engine
\* ------------------------------------------------------------------------
Statuses == {"pending", "in_progress", "completed"}
DepTaskInputs ==
  [id : TaskIds, name : {"Deploy release"}, startTime : Times, endTime : {MaxTime + 1}]

DepCreateTask == \E task \in DepTaskInputs : createTask(task)
DepUpdateTaskStatus == \E id \in TaskIds, st \in Statuses : updateTaskStatus(id, st)
DepAddTaskDependency == \E a, b \in TaskIds : addTaskDependency(a, b)
DepGetBlockedTasks == \E id \in TaskIds : getBlockedTasks(id)

NextDeps ==
  \/ DepCreateTask
  \/ DepUpdateTaskStatus
  \/ DepAddTaskDependency
  \/ initializeDatabase
  \/ DepGetBlockedTasks
  \/ getCriticalPath

SpecDeps == Init /\ [][NextDeps]_vars

\* ------------------------------------------------------------------------
\* Commit operations (lib/neo4j.js)
\* ------------------------------------------------------------------------
MaxCommits == 3

\* A file name is known by its extension, by whether it has a ".test." or
\* ".spec." part, and by whether "api" or "auth" occurs in it.
FileParts(fileName) ==
  CASE fileName = "auth.test.ts" -> [ext |-> "ts", testPart |-> TRUE, api |-> FALSE, auth |-> TRUE]
    [] fileName = "api/route.js" -> [ext |-> "js", testPart |-> FALSE, api |-> TRUE, auth |-> FALSE]
    [] fileName = "app.css" -> [ext |-> "css", testPart |-> FALSE, api |-> FALSE, auth |-> FALSE]
    [] OTHER -> [ext |-> "md", testPart |-> FALSE, api |-> FALSE, auth |-> FALSE]

detectSkillsFromFile(fileName) ==
  LET f == FileParts(fileName)
  IN  (IF f.ext \in {"js", "jsx", "ts", "tsx"} THEN <<"javascript">> ELSE << >>)
      \o (IF f.ext \in {"ts", "tsx"} THEN <<"typescript">> ELSE << >>)
      \o (IF f.ext \in {"jsx", "tsx"} THEN <<"react">> ELSE << >>)
      \o (IF f.ext = "css" THEN <<"css">> ELSE << >>)
      \o (IF f.testPart THEN <<"testing">> ELSE << >>)
      \o (IF f.api THEN <<"api">> ELSE << >>)
      \o (IF f.auth THEN <<"authentication">> ELSE << >>)
      \o (IF f.ext = "cypher" THEN <<"neo4j">> ELSE << >>)

\* skills.push(...detectSkillsFromFile(f)) for each changed file
RECURSIVE SkillsOfFiles(_)
SkillsOfFiles(fileNames) ==
  IF fileNames = << >> THEN << >>
  ELSE detectSkillsFromFile(Head(fileNames)) \o SkillsOfFiles(Tail(fileNames))

\* [...new Set(skills)]: first occurrences, in order
RECURSIVE Dedupe(_)
Dedupe(seq) ==
  IF seq = << >> THEN << >>
  ELSE LET front == Dedupe(SubSeq(seq, 1, Len(seq) - 1))
           last == seq[Len(seq)]
       IN  IF last \in Range(front) THEN front ELSE Append(front, last)

\* The rows of UNWIND $list applied to each row of `rows`: none at all when
\* the list is empty
RECURSIVE Unwind(_, _)
Unwind(rows, list) ==
  IF rows = << >> THEN << >>
  ELSE [i \in 1..Len(list) |-> <<Head(rows), list[i]>>] \o Unwind(Tail(rows), list)

storeCommit(commit) ==
  LET sk == Dedupe(extractSkills(commit.message) \o SkillsOfFiles(commit.filesChanged))
      \* no filesChanged property is written
      props == [message |-> commit.message, timestamp |-> commit.timestamp,
                branch |-> "pending", filesChanged |-> << >>]
      \* WITH c UNWIND $filesChanged AS fileName
      fileRows == Unwind(<<commit.hash>>, commit.filesChanged)
      \* WITH c UNWIND $skills AS skillName: once per row that is left
      skillRows == Unwind([i \in 1..Len(fileRows) |-> commit.hash], sk)
  IN  /\ trav = Idle
      /\ commits' = IF commit.hash \in DOMAIN commits THEN commits
                    ELSE (commit.hash :> props) @@ commits
      /\ files' = files \cup {r[2] : r \in Range(fileRows)}
      /\ modifies' = MergeRels(modifies, fileRows)
      /\ skills' = skills \cup {r[2] : r \in Range(skillRows)}
      /\ demonstrates' = MergeRels(demonstrates, skillRows)
      /\ UNCHANGED <<tasks, dependsOn, requiresSkill, implements, hasSkillLevel>>
      /\ lastOp' = [name |-> "storeCommit", arg |-> commit,
                    again |-> (lastOp.name = "storeCommit" /\ lastOp.arg = commit),
                    changed |-> graph' # graph, before |-> commits]
      /\ result' = Len(skillRows)
      /\ UNCHANGED <<taskIdUnique, now, mockTasks, trav, connection, modified>>

\* c.timestamp >= t.startTime AND c.timestamp <= t.endTime
InTaskWindowOpen(c, t) ==
  commits[c].timestamp > tasks[t].startTime /\ commits[c].timestamp < tasks[t].endTime

InTaskWindow(c, t) ==
  commits[c].timestamp >= tasks[t].startTime /\ commits[c].timestamp <= tasks[t].endTime

\* MATCH (c:Commit)-[:DEMONSTRATES]->(s:Skill)<-[:REQUIRES_SKILL]-(t:Task)
linkRows ==
  { <<d, r>> \in RelInstances(demonstrates) \X RelInstances(requiresSkill) :
      d[2] = r[2] /\ InTaskWindow(d[1], r[1]) }

\* CREATE (c)-[:IMPLEMENTS]->(t) per row
createImplements(rows) ==
  implements (+) [e \in Range(rows) |-> Cardinality({i \in DOMAIN rows : rows[i] = e})]

\* MERGE (c)-[:IMPLEMENTS]->(t) per row
mergeImplements(rows) == MergeRels(implements, rows)

linkCommitsToTasks ==
  LET rows == SetToSeq(linkRows)
  IN  /\ trav = Idle
      /\ implements' = mergeImplements([i \in 1..Len(rows) |->
                                          <<rows[i][1][1], rows[i][2][1]>>])
      /\ lastOp' = [name |-> "linkCommitsToTasks",
                    hadImplements |-> implements # EmptyBag,
                    again |-> lastOp.name = "linkCommitsToTasks",
                    changed |-> implements' # implements]
      /\ result' = Len(rows)
      /\ UNCHANGED <<tasks, dependsOn, requiresSkill, skills, commits, files, modifies,
                     demonstrates, hasSkillLevel, taskIdUnique, now, mockTasks, trav, connection, modified>>

\* ------------------------------------------------------------------------
\* Knowledge gaps
\* ------------------------------------------------------------------------
GapThreshold == 3

\* MATCH (t:Task {status: 'pending'})-[:REQUIRES_SKILL]->(required)
\* OPTIONAL MATCH (c:Commit)-[:DEMONSTRATES]->(required)
\* A row is <<requires instance, << >> or <<demonstrates instance>> >>.
gapRows ==
  UNION { LET ds == {d \in RelInstances(demonstrates) : d[2] = r[2]}
          IN  IF ds = {} THEN { <<r, << >> >> } ELSE { <<r, <<d>> >> : d \in ds }
          : r \in {x \in RelInstances(requiresSkill) : tasks[x[1]].status = "pending"} }

demonstrationRowCount(skill) ==
  Cardinality({ row \in gapRows : row[1][2] = skill /\ row[2] # << >> })

\* count(DISTINCT c) per required skill
demonstrationCount(skill) ==
  Cardinality({ row[2][1][1] : row \in {x \in gapRows : x[1][2] = skill /\ x[2] # << >>} })

\* WHERE demonstrationCount < 3 ... ORDER BY demonstrationCount ASC
findKnowledgeGapsResults ==
  LET required == { row[1][2] : row \in gapRows }
      rows == { [skill |-> sk, currentLevel |-> demonstrationCount(sk)] :
                  sk \in {x \in required : demonstrationCount(x) < GapThreshold} }
      key == [r \in rows |-> r.currentLevel]
  IN  OrderByAsc(rows, key)

findKnowledgeGaps ==
  /\ trav = Idle
  /\ \E seq \in findKnowledgeGapsResults : result' = seq
  /\ lastOp' = [name |-> "findKnowledgeGaps"]
  /\ UNCHANGED <<graph, taskIdUnique, now, mockTasks, trav, connection, modified>>

\* ------------------------------------------------------------------------
\* Specifications of commit storage, commit linking and gap analysis
\* ------------------------------------------------------------------------
StoreCommitInputs ==
  [hash : 1..2, message : {"Write unit tests", "Deploy release"}, timestamp : Times,
   filesChanged : {<< >>, <<"auth.test.ts">>, <<"app.css", "README.md", "app.css">>}]

StoreStoreCommit == \E commit \in StoreCommitInputs : storeCommit(commit)

NextStore == StoreStoreCommit

SpecStore == Init /\ [][NextStore]_vars

MaxLinkTasks == 2
MaxLinkCommits == 2

\* Task windows: the first instant, the last instant, and all of them
LinkWindows == { <<1, 1>>, <<1, MaxTime>>, <<MaxTime, MaxTime>> }
LinkTaskInputs ==
  { [id |-> "t1", name |-> "Fix auth session test", startTime |-> w[1], endTime |-> w[2]] :
      w \in LinkWindows }
\* The commits of the history arrive in hash order
LinkCommitInputs ==
  [hash : {Cardinality(DOMAIN commits) + 1}, message : {"Deploy release"},
   timestamp : Times, filesChanged : {<<"auth.test.ts">>, <<"app.css">>}]

LinkCreateTask ==
  /\ Cardinality(DOMAIN tasks) < MaxLinkTasks
  /\ \E task \in LinkTaskInputs : createTask(task)
LinkStoreCommit ==
  /\ Cardinality(DOMAIN commits) < MaxLinkCommits
  /\ \E commit \in LinkCommitInputs : storeCommit(commit)

NextLink ==
  \/ LinkCreateTask
  \/ LinkStoreCommit
  \/ linkCommitsToTasks

SpecLink == Init /\ [][NextLink]_vars

MaxGapTasks == 2
GapTaskInputs ==
  { [id |-> "t1", name |-> "Build login api", startTime |-> 1, endTime |-> MaxTime],
    [id |-> "t2", name |-> "Write unit tests", startTime |-> 1, endTime |-> MaxTime] }
\* The commits of the history arrive in hash order
GapCommitInputs ==
  [hash : {Cardinality(DOMAIN commits) + 1}, message : {"Deploy release"}, timestamp : {1},
   filesChanged : {<<"api/route.js">>, <<"api/route.js", "auth.test.ts">>}]

GapCreateTask ==
  /\ Cardinality(DOMAIN tasks) < MaxGapTasks
  /\ \E task \in GapTaskInputs : createTask(task)
GapUpdateTaskStatus == \E id \in TaskIds, st \in Statuses : updateTaskStatus(id, st)
GapStoreCommit ==
  /\ Cardinality(DOMAIN commits) < MaxCommits
  /\ \E commit \in GapCommitInputs : storeCommit(commit)

NextGaps ==
  \/ GapCreateTask
  \/ GapUpdateTaskStatus
  \/ GapStoreCommit
  \/ findKnowledgeGaps

SpecGaps == Init /\ [][NextGaps]_vars

\* ------------------------------------------------------------------------
\* The variable-length match of getBlockedTasks, one expansion at a time
\* ------------------------------------------------------------------------
\* The store expands (blocked)-[:DEPENDS_ON*]->(t) from t backwards: every
\* partial path is emitted as a row and extended by each relationship into
\* its first node that the path does not use yet.
Extensions(trail) ==
  { <<r>> \o trail : r \in {x \in RelInstances(dependsOn) :
                              x[2] = trail[1][1] /\ x \notin Range(trail)} }

beginBlockedMatch(taskId) ==
  /\ trav = Idle
  /\ trav' = [pc |-> "matching", taskId |-> taskId, rows |-> {},
              frontier |-> UNION { DirectTrailsInto(dependsOn, t) :
                                     t \in TaskNodesWithId(taskId) }]
  /\ UNCHANGED <<graph, taskIdUnique, now, mockTasks, lastOp, result, connection, modified>>

FrontierAfterStuck(frontier, trail) == frontier \cup Extensions(trail)

FrontierAfter(frontier, trail) == (frontier \ {trail}) \cup Extensions(trail)

expandTrail ==
  /\ trav # Idle
  /\ \E trail \in trav.frontier :
       trav' = [trav EXCEPT !.rows = @ \cup {trail},
                            !.frontier = FrontierAfter(@, trail)]
  /\ UNCHANGED <<graph, taskIdUnique, now, mockTasks, lastOp, result, connection, modified>>

\* WHERE blocked.status <> 'completed' RETURN DISTINCT blocked ORDER BY startTime
finishBlockedMatch ==
  /\ trav # Idle
  /\ trav.frontier = {}
  /\ LET blocked == { trail[1][1] : trail \in
                        {tr \in trav.rows : tasks[tr[1][1]].status # "completed"} }
         startTime == [n \in blocked |-> tasks[n].startTime]
     IN  \E seq \in OrderByAsc(blocked, startTime) : result' = seq
  /\ lastOp' = [name |-> "getBlockedTasks", arg |-> trav.taskId]
  /\ trav' = Idle
  /\ UNCHANGED <<graph, taskIdUnique, now, mockTasks, connection, modified>>

TravCreateTask == \E task \in DepTaskInputs : createTask(task)
TravCompleteTask == \E id \in TaskIds : updateTaskStatus(id, "completed")
TravAddTaskDependency == \E a, b \in TaskIds : addTaskDependency(a, b)
TravBeginBlockedMatch == \E id \in TaskIds : beginBlockedMatch(id)

NextTraverse ==
  \/ TravCreateTask
  \/ TravCompleteTask
  \/ TravAddTaskDependency
  \/ TravBeginBlockedMatch
  \/ expandTrail
  \/ finishBlockedMatch

\* A match that has started is carried on until it has returned
SpecTraverse ==
  Init /\ [][NextTraverse]_vars /\ WF_vars(expandTrail) /\ WF_vars(finishBlockedMatch)

\* ------------------------------------------------------------------------
\* Claims about the dependency engine
\* ------------------------------------------------------------------------
RECURSIVE TransitiveClosure(_)
TransitiveClosure(R) ==
  LET R2 == R \cup { <<p[1][1], p[2][2]>> : p \in {q \in R \X R : q[1][2] = q[2][1]} }
  IN  IF R2 = R THEN R ELSE TransitiveClosure(R2)

\* The tasks from which a DEPENDS_ON path of length >= 1 leads to n
DependentsOf(n) ==
  { m \in DOMAIN tasks : <<m, n>> \in TransitiveClosure(BagToSet(dependsOn)) }

IncompleteDependentsOf(taskId) ==
  { m \in DOMAIN tasks :
      /\ tasks[m].status # "completed"
      /\ \E t \in TaskNodesWithId(taskId) : m \in DependentsOf(t) }

NoDuplicates(seq) == \A i, j \in DOMAIN seq : i # j => seq[i] # seq[j]

\* C1: getBlockedTasks(taskId) returns exactly the tasks that are not
\* completed and from which a DEPENDS_ON path of length >= 1 leads to taskId,
\* each once, by startTime ascending.
C1_BlockedTasksExact ==
  lastOp.name = "getBlockedTasks" =>
    /\ Range(result) = IncompleteDependentsOf(lastOp.arg)
    /\ NoDuplicates(result)
    /\ \A i, j \in DOMAIN result :
         i < j => tasks[result[i]].startTime <= tasks[result[j]].startTime

\* A task is returned that reaches taskId only through a completed task, and
\* the result has two tasks with different start times.
C1_Witness ==
  /\ lastOp.name = "getBlockedTasks"
  /\ Len(result) >= 2
  /\ tasks[result[1]].startTime < tasks[result[2]].startTime
  /\ \E i \in DOMAIN result : \E t \in TaskNodesWithId(lastOp.arg) :
       /\ ~BagIn(<<result[i], t>>, dependsOn)
       /\ \A m \in DOMAIN tasks :
            (BagIn(<<result[i], m>>, dependsOn) /\ m # result[i])
              => tasks[m].status = "completed"

\* C2: a blocked-task match that has started returns, also on a graph with a
\* cycle or a self-dependency, and what it returns is free of duplicates and
\* is a result of getBlockedTasks.
C2_BlockedTasksTerminates ==
  /\ [](lastOp.name = "getBlockedTasks" =>
          NoDuplicates(result) /\ result \in getBlockedTasksResults(lastOp.arg))
  /\ [](trav # Idle => <>(trav = Idle))

\* A match has returned two tasks on a graph where a task depends on itself
\* and two tasks depend on each other.
C2_Witness ==
  /\ lastOp.name = "getBlockedTasks"
  /\ trav = Idle
  /\ Len(result) >= 2
  /\ \E n \in DOMAIN tasks : BagIn(<<n, n>>, dependsOn)
  /\ \E m, n \in DOMAIN tasks :
       m # n /\ BagIn(<<m, n>>, dependsOn) /\ BagIn(<<n, m>>, dependsOn)

\* The number of distinct incomplete tasks that transitively depend on t
BlockCountOf(t) ==
  Cardinality({ m \in DependentsOf(t) : tasks[m].status # "completed" })

\* C8: getCriticalPath returns incomplete tasks by block-count descending,
\* and tasks with equal block-count by earlier startTime first.
C8_CriticalPathOrder ==
  lastOp.name = "getCriticalPath" =>
    /\ \A i \in DOMAIN result :
         /\ tasks[result[i].task].status # "completed"
         /\ result[i].blocksCount = BlockCountOf(result[i].task)
    /\ \A i, j \in DOMAIN result :
         i < j =>
           \/ result[i].blocksCount > result[j].blocksCount
           \/ /\ result[i].blocksCount = result[j].blocksCount
              /\ tasks[result[i].task].startTime <= tasks[result[j].task].startTime


\* ------------------------------------------------------------------------
\* Commit storage, commit linking and knowledge gaps: properties
\* ------------------------------------------------------------------------
InferredSkills(commit) ==
  Range(extractSkills(commit.message))
    \cup UNION { Range(detectSkillsFromFile(f)) : f \in Range(commit.filesChanged) }

\* C3: after storeCommit(commit) the commit has its node, exactly one MODIFIES
\* edge per changed file and exactly one DEMONSTRATES edge per skill inferred
\* from the message and the files, and a repeated call with the same commit
\* leaves the graph as the call before it left it.
C3_StoreCommitIdempotent ==
  lastOp.name = "storeCommit" =>
    /\ lastOp.arg.hash \in DOMAIN commits
    /\ \A f \in Range(lastOp.arg.filesChanged) :
         CopiesIn(<<lastOp.arg.hash, f>>, modifies) = 1
    /\ \A sk \in InferredSkills(lastOp.arg) :
         CopiesIn(<<lastOp.arg.hash, sk>>, demonstrates) = 1
    /\ lastOp.again => ~lastOp.changed

SharedSkills(c, t) ==
  { sk \in skills : BagIn(<<c, sk>>, demonstrates) /\ BagIn(<<t, sk>>, requiresSkill) }

\* C4: after linkCommitsToTasks on a graph without IMPLEMENTS edges, commit c
\* IMPLEMENTS task t iff they share a skill and
\* t.startTime <= c.timestamp <= t.endTime.
C4_LinkIffSkillAndWindow ==
  (lastOp.name = "linkCommitsToTasks" /\ ~lastOp.hadImplements) =>
    /\ BagToSet(implements) \subseteq (DOMAIN commits) \X (DOMAIN tasks)
    /\ \A c \in DOMAIN commits, t \in DOMAIN tasks :
         BagIn(<<c, t>>, implements) <=>
           /\ SharedSkills(c, t) # {}
           /\ tasks[t].startTime <= commits[c].timestamp
           /\ commits[c].timestamp <= tasks[t].endTime

\* a commit on a boundary instant of a task's window is linked, a commit
\* sharing a skill with a task but outside its window is not, and neither is
\* a commit inside the window that shares no skill
C4_Witness ==
  /\ lastOp.name = "linkCommitsToTasks" /\ ~lastOp.hadImplements
  /\ \E c \in DOMAIN commits, t \in DOMAIN tasks :
       /\ BagIn(<<c, t>>, implements)
       /\ \/ commits[c].timestamp = tasks[t].startTime
          \/ commits[c].timestamp = tasks[t].endTime
  /\ \E c \in DOMAIN commits, t \in DOMAIN tasks :
       /\ ~BagIn(<<c, t>>, implements)
       /\ SharedSkills(c, t) # {}
  /\ \E c \in DOMAIN commits, t \in DOMAIN tasks :
       /\ ~BagIn(<<c, t>>, implements)
       /\ SharedSkills(c, t) = {}
       /\ tasks[t].startTime <= commits[c].timestamp
       /\ commits[c].timestamp <= tasks[t].endTime

\* C5: linkCommitsToTasks run right after linkCommitsToTasks changes no
\* IMPLEMENTS edge, and after any run no (commit, task) pair has more than
\* one IMPLEMENTS edge.
C5_LinkIdempotent ==
  lastOp.name = "linkCommitsToTasks" =>
    /\ \A e \in BagToSet(implements) : CopiesIn(e, implements) = 1
    /\ lastOp.again => ~lastOp.changed

\* the second of two runs in a row, with a linked pair sharing two skills
C5_Witness ==
  /\ lastOp.name = "linkCommitsToTasks" /\ lastOp.again
  /\ \E c \in DOMAIN commits, t \in DOMAIN tasks :
       /\ CopiesIn(<<c, t>>, implements) = 1
       /\ Cardinality(SharedSkills(c, t)) >= 2

PendingRequired ==
  { e[2] : e \in {x \in BagToSet(requiresSkill) : tasks[x[1]].status = "pending"} }

CommitsDemonstrating(sk) ==
  Cardinality({ c \in DOMAIN commits : BagIn(<<c, sk>>, demonstrates) })

\* C9: findKnowledgeGaps lists, once each, exactly the skills that a pending
\* task requires and that fewer than 3 distinct commits demonstrate, in
\* ascending order of that number.
C9_KnowledgeGapsExact ==
  lastOp.name = "findKnowledgeGaps" =>
    /\ { result[i].skill : i \in DOMAIN result }
         = { sk \in PendingRequired : CommitsDemonstrating(sk) < 3 }
    /\ \A i, j \in DOMAIN result : i # j => result[i].skill # result[j].skill
    /\ \A i, j \in DOMAIN result :
         i < j => CommitsDemonstrating(result[i].skill)
                    <= CommitsDemonstrating(result[j].skill)

\* a skill with 2 demonstrating commits is listed after one with none, a
\* skill with 3 that a pending task requires is left out, and so is a skill
\* with 2 that only a completed task requires
C9_Witness ==
  /\ lastOp.name = "findKnowledgeGaps"
  /\ \E i, j \in DOMAIN result :
       /\ i < j
       /\ CommitsDemonstrating(result[i].skill) = 0
       /\ CommitsDemonstrating(result[j].skill) = 2
  /\ \E sk \in PendingRequired :
       /\ CommitsDemonstrating(sk) = 3
       /\ \A i \in DOMAIN result : result[i].skill # sk
  /\ \E e \in BagToSet(requiresSkill) :
       /\ tasks[e[1]].status = "completed"
       /\ CommitsDemonstrating(e[2]) = 2
       /\ \A i \in DOMAIN result : result[i].skill # e[2]

\* ------------------------------------------------------------------------
\* Staleness: the MCP server, the calendar, the home page, the context
\* recall view and the reschedule dialog.
\* Instants are ticks, TicksPerHour of them to the hour.
\* ------------------------------------------------------------------------
TicksPerHour == 2
MaxHours == 3
MaxMockTasks == 2
Ticks == 0..(MaxHours * TicksPerHour)

\* staleThresholdHours = 2 (Calendar's default)
StaleThresholdHours == 2

\* date-fns differenceInHours(a, b): full hours, rounded towards zero
differenceInHours(a, b) ==
  IF a >= b THEN (a - b) \div TicksPerHour ELSE 0 - ((b - a) \div TicksPerHour)

\* Math.round((a - b) / (1000 * 60 * 60)): nearest hour, halves upwards
roundedHours(a, b) == (2 * (a - b) + TicksPerHour) \div (2 * TicksPerHour)

\* (now - lastActivity) / (1000 * 60 * 60) >= 2, without the division
hoursSinceAtLeast(ref, hours) == (now - ref) >= hours * TicksPerHour

\* t.lastActivity ? new Date(t.lastActivity) : startTime
referenceTime(t) == IF t.lastActivity # << >> THEN t.lastActivity[1] ELSE t.startTime

\* The filter of the MCP handlers and of the context recall view
staleByElapsedTime(t) ==
  IF t.status = "completed" THEN FALSE
  ELSE IF t.isStale THEN TRUE
  ELSE IF t.startTime > now THEN FALSE
  ELSE hoursSinceAtLeast(referenceTime(t), 2)

\* Calendar.isTaskStale
isTaskStale(task) ==
  IF task.status = "completed" THEN FALSE
  ELSE IF task.isStale THEN TRUE
  ELSE IF task.startTime > now THEN FALSE
  ELSE differenceInHours(now, referenceTime(task)) >= StaleThresholdHours

\* HomePage staleTasks
homeStale(task) ==
  IF task.status = "completed" THEN FALSE
  ELSE IF task.isStale THEN TRUE
  ELSE IF task.startTime > now THEN FALSE
  ELSE differenceInHours(now, referenceTime(task)) >= 2

\* RescheduleModal: reschedulableTasks keeps what is not completed and
\* recomputes isStale over the task's own flag
rescheduleStale(task) ==
  LET hoursSinceActivity ==
        IF task.lastActivity # << >> THEN differenceInHours(now, task.lastActivity[1])
        ELSE IF task.startTime < now THEN differenceInHours(now, task.startTime)
        ELSE 0
  IN  /\ task.status # "completed"
      /\ hoursSinceActivity > 2 /\ task.startTime < now

IdsOf(seq) == [i \in DOMAIN seq |-> seq[i].id]

\* hoursInactive: << >> stands for the string 'unknown'
hoursInactive(t) ==
  IF t.lastActivity # << >> THEN <<roundedHours(now, t.lastActivity[1])>> ELSE << >>

handleGetStaleTasks ==
  LET staleTasks == SelectSeq(mockTasks, staleByElapsedTime)
  IN  /\ result' = [i \in DOMAIN staleTasks |->
                      [id |-> staleTasks[i].id, hoursInactive |-> hoursInactive(staleTasks[i])]]
      /\ lastOp' = [name |-> "handleGetStaleTasks"]
      /\ UNCHANGED <<graph, taskIdUnique, now, mockTasks, trav, connection, modified>>

handleGetTasksStale ==
  /\ result' = IdsOf(SelectSeq(mockTasks, staleByElapsedTime))
  /\ lastOp' = [name |-> "handleGetTasks"]
  /\ UNCHANGED <<graph, taskIdUnique, now, mockTasks, trav, connection, modified>>

handleGetDeveloperContext ==
  /\ result' = IdsOf(SelectSeq(mockTasks, staleByElapsedTime))
  /\ lastOp' = [name |-> "handleGetDeveloperContext"]
  /\ UNCHANGED <<graph, taskIdUnique, now, mockTasks, trav, connection, modified>>

ContextRecallStaleTasks ==
  /\ result' = IdsOf(SelectSeq(mockTasks, staleByElapsedTime))
  /\ lastOp' = [name |-> "ContextRecall"]
  /\ UNCHANGED <<graph, taskIdUnique, now, mockTasks, trav, connection, modified>>

CalendarStaleTasks ==
  /\ result' = IdsOf(SelectSeq(mockTasks, isTaskStale))
  /\ lastOp' = [name |-> "Calendar"]
  /\ UNCHANGED <<graph, taskIdUnique, now, mockTasks, trav, connection, modified>>

HomePageStaleTasks ==
  /\ result' = IdsOf(SelectSeq(mockTasks, homeStale))
  /\ lastOp' = [name |-> "HomePage"]
  /\ UNCHANGED <<graph, taskIdUnique, now, mockTasks, trav, connection, modified>>

RescheduleModalStaleTasks ==
  /\ result' = IdsOf(SelectSeq(mockTasks, rescheduleStale))
  /\ lastOp' = [name |-> "RescheduleModal"]
  /\ UNCHANGED <<graph, taskIdUnique, now, mockTasks, trav, connection, modified>>

\* POST /api/tasks in demo mode: the new task has neither lastActivity nor
\* an isStale flag
PostTask ==
  /\ Len(mockTasks) < MaxMockTasks
  /\ \E st \in {0, MaxHours * TicksPerHour} :
       mockTasks' = Append(mockTasks,
                           [id |-> <<"task", now>>, status |-> "pending", isStale |-> FALSE,
                            startTime |-> st, lastActivity |-> << >>])
  /\ lastOp' = [name |-> "POST"]
  /\ result' = None
  /\ UNCHANGED <<graph, taskIdUnique, now, trav, connection, modified>>

StaleTaskInputs ==
  [id : {<<"demo", 1>>}, status : Statuses, isStale : BOOLEAN, startTime : Ticks,
   lastActivity : {<< >>} \cup {<<t>> : t \in Ticks}]

InitStale ==
  /\ driver = << >> /\ handles = << >> /\ calls = << >> /\ modified = EmptyBag
  /\ tasks = << >> /\ dependsOn = EmptyBag /\ requiresSkill = EmptyBag /\ skills = {}
  /\ commits = << >> /\ files = {} /\ modifies = EmptyBag /\ demonstrates = EmptyBag
  /\ implements = EmptyBag /\ hasSkillLevel = << >> /\ taskIdUnique = FALSE
  /\ \E t \in StaleTaskInputs : mockTasks = <<t>>
  /\ now \in Ticks
  /\ lastOp = [name |-> "init"] /\ result = None /\ trav = Idle

NextStale ==
  \/ PostTask
  \/ handleGetStaleTasks
  \/ handleGetTasksStale
  \/ handleGetDeveloperContext
  \/ ContextRecallStaleTasks
  \/ CalendarStaleTasks
  \/ HomePageStaleTasks
  \/ RescheduleModalStaleTasks

SpecStale == InitStale /\ [][NextStale]_vars

StaleSites ==
  {"handleGetStaleTasks", "handleGetTasks", "handleGetDeveloperContext", "ContextRecall",
   "Calendar", "HomePage", "RescheduleModal"}

\* isStale(task, now, thresholdHours) of the design
IsStaleAt(task, thresholdHours) ==
  IF task.status = "completed" THEN FALSE
  ELSE IF task.isStale THEN TRUE
  ELSE IF task.startTime > now THEN FALSE
  ELSE now - referenceTime(task) >= thresholdHours * TicksPerHour

ReturnedIds ==
  IF lastOp.name = "handleGetStaleTasks" THEN {result[i].id : i \in DOMAIN result}
  ELSE Range(result)

\* C6: every place that surfaces staleness classifies every task as
\* isStale(task, now, 2) does.
C6_StalenessEverywhereAlike ==
  lastOp.name \in StaleSites =>
    \A i \in DOMAIN mockTasks :
      (mockTasks[i].id \in ReturnedIds) <=> IsStaleAt(mockTasks[i], 2)

\* C7: get_stale_tasks returns exactly the stale tasks, each with the whole
\* hours since lastActivity, or since startTime when there is none.
C7_StaleTasksHoursInactive ==
  lastOp.name = "handleGetStaleTasks" =>
    /\ \A i \in DOMAIN mockTasks :
         (mockTasks[i].id \in ReturnedIds) <=> IsStaleAt(mockTasks[i], 2)
    /\ \A i \in DOMAIN result : \E j \in DOMAIN mockTasks :
         /\ mockTasks[j].id = result[i].id
         /\ result[i].hoursInactive
              = <<differenceInHours(now, referenceTime(mockTasks[j]))>>

\* ------------------------------------------------------------------------
\* Monthly snapshot (lib/neo4j.js calculateMonthlySnapshot)
\* Months are MonthTicks instants long.
\* ------------------------------------------------------------------------
MonthTicks == 2
MaxSnapshotCommits == 20
MaxEarlierCommits == 1
MaxSnapshotTasks == 2

\* `${now.getFullYear()}-${month}` and `${yearMonth}-01T00:00:00Z`
yearMonthOf(instant) == instant \div MonthTicks
startOfMonthOf(yearMonth) == yearMonth * MonthTicks

\* count(DISTINCT c) over the commits matched for the month
monthlyCommits(sk, startOfMonth) ==
  Cardinality({ c \in DOMAIN commits :
                  BagIn(<<c, sk>>, demonstrates) /\ commits[c].timestamp >= startOfMonth })

\* count(DISTINCT t) over the completed tasks updated in the month
monthlyTasks(sk, startOfMonth) ==
  Cardinality({ t \in DOMAIN tasks :
                  /\ BagIn(<<t, sk>>, requiresSkill)
                  /\ tasks[t].status = "completed"
                  /\ tasks[t].updatedAt # << >>
                  /\ tasks[t].updatedAt[1] >= startOfMonth })

snapshotLevelStrict(n) ==
  CASE n > 20 -> 10 [] n > 15 -> 9 [] n > 10 -> 8 [] n > 7 -> 7 [] n > 5 -> 6
    [] n > 3 -> 5 [] n > 2 -> 4 [] n > 1 -> 3 [] OTHER -> 1

\* CASE WHEN monthlyCommits >= 20 THEN 10 ... ELSE 1 END: the first branch
\* that applies
snapshotLevel(n) ==
  IF n >= 20 THEN 10
  ELSE IF n >= 15 THEN 9
  ELSE IF n >= 10 THEN 8
  ELSE IF n >= 7 THEN 7
  ELSE IF n >= 5 THEN 6
  ELSE IF n >= 3 THEN 5
  ELSE IF n >= 2 THEN 4
  ELSE IF n >= 1 THEN 3
  ELSE 1

\* The HAS_SKILL_LEVEL relationships between a month and a skill
SkillLevelEdges(bag, yearMonth, sk) ==
  { e \in BagToSet(bag) : e.month = yearMonth /\ e.skill = sk }

\* MERGE (m)-[r:HAS_SKILL_LEVEL]->(s) SET r.level = ..., once per row: a
\* pair without a relationship gets one, and every relationship of the pair
\* gets the row's attributes
mergeSkillLevels(bag, rows) ==
  LET hit(e) == \E r \in rows : r.month = e.month /\ r.skill = e.skill
      kept == { e \in BagToSet(bag) : ~hit(e) }
      had(r) == BagCardinality([e \in SkillLevelEdges(bag, r.month, r.skill) |-> bag[e]])
  IN  [e \in kept \cup rows |->
         IF e \in rows THEN (IF had(e) = 0 THEN 1 ELSE had(e)) ELSE bag[e]]

\* the rows of the query: one per skill with activity since the start of the
\* current month
snapshotRows ==
  LET yearMonth == yearMonthOf(now)
      startOfMonth == startOfMonthOf(yearMonth)
      \* WHERE monthlyCommits > 0 OR monthlyTasks > 0
      active == { sk \in skills : \/ monthlyCommits(sk, startOfMonth) > 0
                                  \/ monthlyTasks(sk, startOfMonth) > 0 }
  IN  { [month |-> yearMonth, skill |-> sk,
         level |-> snapshotLevel(monthlyCommits(sk, startOfMonth)),
         commits |-> monthlyCommits(sk, startOfMonth),
         tasksCompleted |-> monthlyTasks(sk, startOfMonth)] : sk \in active }

\* RETURN s.name AS skill, level, monthlyCommits, monthlyTasks
snapshotReturned ==
  { [skill |-> r.skill, level |-> r.level, monthlyCommits |-> r.commits,
     monthlyTasks |-> r.tasksCompleted] : r \in snapshotRows }

calculateMonthlySnapshot ==
  /\ trav = Idle
  /\ hasSkillLevel' = mergeSkillLevels(hasSkillLevel, snapshotRows)
  /\ result' = snapshotReturned
  /\ lastOp' = [name |-> "calculateMonthlySnapshot", yearMonth |-> yearMonthOf(now)]
  /\ UNCHANGED <<tasks, dependsOn, requiresSkill, skills, commits, files, modifies,
                 demonstrates, implements, taskIdUnique, now, mockTasks, trav, connection, modified>>

\* Time passes
AdvanceClock ==
  /\ trav = Idle
  /\ now < MaxTime
  /\ now' = now + 1
  /\ lastOp' = [name |-> "clock"]
  /\ result' = None
  /\ UNCHANGED <<graph, taskIdUnique, mockTasks, trav, connection, modified>>

\* The tasks of the plan, created in this order
SnapshotTaskInputs ==
  << [id |-> "t1", name |-> "Build login api", startTime |-> 1, endTime |-> MaxTime + 1],
     [id |-> "t2", name |-> "Write unit tests", startTime |-> 1, endTime |-> MaxTime + 1] >>

SnapCreateTask ==
  /\ Cardinality(DOMAIN tasks) < Min(MaxSnapshotTasks, Len(SnapshotTaskInputs))
  /\ createTask(SnapshotTaskInputs[Cardinality(DOMAIN tasks) + 1])

SnapCompleteTask == updateTaskStatus("t1", "completed")

\* The commits of the history arrive in hash order, each made at the
\* current instant: MaxEarlierCommits at most before the last instant and
\* MaxSnapshotCommits at most at the last one
SnapStoreCommit ==
  /\ IF now < MaxTime THEN Cardinality(DOMAIN commits) < MaxEarlierCommits
     ELSE Cardinality({c \in DOMAIN commits : commits[c].timestamp = now})
            < MaxSnapshotCommits
  /\ storeCommit([hash |-> Cardinality(DOMAIN commits) + 1, message |-> "Deploy release",
                  timestamp |-> now, filesChanged |-> <<"app.css">>])

NextSnapshot ==
  \/ AdvanceClock
  \/ SnapCreateTask
  \/ SnapCompleteTask
  \/ SnapStoreCommit
  \/ calculateMonthlySnapshot

SpecSnapshot == Init /\ [][NextSnapshot]_vars

\* The stepped table of the design: the level of a commit count
SteppedLevel(n) ==
  CASE n >= 20 -> 10
    [] n >= 15 /\ n < 20 -> 9
    [] n >= 10 /\ n < 15 -> 8
    [] n >= 7 /\ n < 10 -> 7
    [] n >= 5 /\ n < 7 -> 6
    [] n >= 3 /\ n < 5 -> 5
    [] n = 2 -> 4
    [] n = 1 -> 3
    [] OTHER -> 1

CommitsInMonth(sk, yearMonth) ==
  Cardinality({ c \in DOMAIN commits :
                  /\ BagIn(<<c, sk>>, demonstrates)
                  /\ commits[c].timestamp >= yearMonth * MonthTicks })

CompletedInMonth(sk, yearMonth) ==
  Cardinality({ t \in DOMAIN tasks :
                  /\ BagIn(<<t, sk>>, requiresSkill)
                  /\ tasks[t].status = "completed"
                  /\ tasks[t].updatedAt # << >>
                  /\ tasks[t].updatedAt[1] >= yearMonth * MonthTicks })

RecordedLevel(sk, yearMonth, level) ==
  /\ SkillLevelEdges(hasSkillLevel, yearMonth, sk) # {}
  /\ \A e \in SkillLevelEdges(hasSkillLevel, yearMonth, sk) : e.level = level

MaxLevelCommits == 2

recordMonthlySkillLevel(yearMonth, skillName, level, commitCount, tasksCompleted) ==
  /\ trav = Idle
  \* MERGE (s:Skill {name: $skillName})
  /\ skills' = skills \cup {skillName}
  /\ hasSkillLevel' = mergeSkillLevels(hasSkillLevel,
                        { [month |-> yearMonth, skill |-> skillName, level |-> level,
                           commits |-> commitCount, tasksCompleted |-> tasksCompleted] })
  /\ lastOp' = [name |-> "recordMonthlySkillLevel", yearMonth |-> yearMonth]
  /\ result' = None
  /\ UNCHANGED <<tasks, dependsOn, requiresSkill, commits, files, modifies, demonstrates,
                 implements, taskIdUnique, now, mockTasks, trav, connection, modified>>

LevelCreateTask ==
  /\ tasks = << >>
  /\ createTask(SnapshotTaskInputs[1])

LevelUpdateTaskStatus == \E st \in {"pending", "completed"} : updateTaskStatus("t1", st)

LevelStoreCommit ==
  /\ Cardinality(DOMAIN commits) < MaxLevelCommits
  /\ storeCommit([hash |-> Cardinality(DOMAIN commits) + 1, message |-> "Deploy release",
                  timestamp |-> now, filesChanged |-> <<"app.css">>])

LevelRecord ==
  \E sk \in {"css", "nodejs"}, level \in {1, 10} :
    recordMonthlySkillLevel(yearMonthOf(now), sk, level, 0, 0)

NextLevels ==
  \/ AdvanceClock
  \/ LevelCreateTask
  \/ LevelUpdateTaskStatus
  \/ LevelStoreCommit
  \/ LevelRecord
  \/ calculateMonthlySnapshot

SpecLevels == Init /\ [][NextLevels]_vars

\* C11: a month and a skill have at most one HAS_SKILL_LEVEL edge, and after
\* a snapshot every edge of the snapshot's month carries the level, commits
\* and tasksCompleted which that snapshot computes from the graph as it is.
C11_SkillLevelEdgeUniqueAndFresh ==
  /\ \A e \in BagToSet(hasSkillLevel) :
       /\ CopiesIn(e, hasSkillLevel) = 1
       /\ SkillLevelEdges(hasSkillLevel, e.month, e.skill) = {e}
  /\ lastOp.name = "calculateMonthlySnapshot" =>
       \A e \in BagToSet(hasSkillLevel) :
         e.month = lastOp.yearMonth =>
           /\ e.level = SteppedLevel(CommitsInMonth(e.skill, e.month))
           /\ e.commits = CommitsInMonth(e.skill, e.month)
           /\ e.tasksCompleted = CompletedInMonth(e.skill, e.month)

\* ------------------------------------------------------------------------
\* /api/tasks: the route handlers, against the graph (live) and against the
\* in-memory list (demo mode)
\* ------------------------------------------------------------------------
MaxApiTasks == 2
DayTicks == 2
AllTasksLimit == 100

\* the list the demo store starts with
DemoData ==
  << [id |-> <<"demo", 1>>, name |-> "Set up Next.js project", status |-> "completed",
      startTime |-> 0, endTime |-> 1, updatedAt |-> << >>] >>

\* 'task_' + Date.now()
generatedId == <<"task", now>>

dateOf(instant) == instant \div DayTicks

Response(status, error, task, isDemo) ==
  [status |-> status, success |-> status = 200, error |-> error, task |-> task,
   tasks |-> << >>, deleted |-> << >>, isDemo |-> isDemo]

\* convertTaskProperties(result[0]?.t?.properties), null when there is no row
returnedTask(rows) == IF rows = << >> THEN << >> ELSE <<rows[1]>>

\* a delete that removes the node and leaves its relationships behind
deleteTaskWritesNodeOnly(taskId) ==
  /\ tasks' = [n \in DOMAIN tasks \ TaskNodesWithId(taskId) |-> tasks[n]]
  /\ UNCHANGED <<dependsOn, requiresSkill, implements>>

\* MATCH (t:Task {id: $id}) DETACH DELETE t
deleteTaskWrites(taskId) ==
  LET hit == TaskNodesWithId(taskId)
      stay == DOMAIN tasks \ hit
  IN  /\ tasks' = [n \in stay |-> tasks[n]]
      /\ dependsOn' = [e \in {x \in BagToSet(dependsOn) : x[1] \in stay /\ x[2] \in stay}
                         |-> dependsOn[e]]
      /\ requiresSkill' = [e \in {x \in BagToSet(requiresSkill) : x[1] \in stay}
                             |-> requiresSkill[e]]
      /\ implements' = [e \in {x \in BagToSet(implements) : x[2] \in stay}
                          |-> implements[e]]

\* getAllTasks: ORDER BY t.startTime DESC LIMIT 100
getAllTasksResults ==
  LET key == [n \in DOMAIN tasks |-> tasks[n].startTime]
  IN  { [i \in 1..Len(Limit(seq, AllTasksLimit)) |-> tasks[seq[i]]] :
          seq \in OrderByDesc(DOMAIN tasks, key) }

\* getTasksByDate: WHERE date(t.startTime) = date($date) ... ORDER BY t.startTime
getTasksByDateResults(date) ==
  LET hit == {n \in DOMAIN tasks : dateOf(tasks[n].startTime) = date}
      key == [n \in hit |-> tasks[n].startTime]
      row(n) == [id |-> tasks[n].id, name |-> tasks[n].name, status |-> tasks[n].status,
                 startTime |-> tasks[n].startTime, endTime |-> tasks[n].endTime,
                 updatedAt |-> tasks[n].updatedAt,
                 skills |-> {e[2] : e \in {x \in BagToSet(requiresSkill) : x[1] = n}},
                 dependencies |->
                   {tasks[e[2]].id : e \in {x \in BagToSet(dependsOn) : x[1] = n}}]
  IN  { [i \in 1..Len(seq) |-> row(seq[i])] : seq \in OrderByAsc(hit, key) }

\* GET: a failing query is caught and answered with status 500
GetLive(date, up) ==
  /\ trav = Idle
  /\ IF ~up
     THEN result' = Response(500, "unavailable", << >>, FALSE)
     ELSE \E seq \in (IF date = << >> THEN getAllTasksResults
                      ELSE getTasksByDateResults(date[1])) :
            result' = [Response(200, "", << >>, FALSE) EXCEPT !.tasks = seq]
  /\ UNCHANGED <<graph, taskIdUnique, now, mockTasks, trav, connection, modified>>

GetDemo(date) ==
  LET onDate(task) == dateOf(task.startTime) = date[1]
  IN  /\ trav = Idle
      /\ result' = [Response(200, "", << >>, TRUE) EXCEPT
                      !.tasks = IF date = << >> THEN mockTasks
                                ELSE SelectSeq(mockTasks, onDate)]
      /\ UNCHANGED <<graph, taskIdUnique, now, mockTasks, trav, connection, modified>>

\* !body.name || !body.startTime || !body.endTime
MissingRequired(body) ==
  body.name = << >> \/ body.startTime = << >> \/ body.endTime = << >>

PostLive(body, up) ==
  LET task == [id |-> IF body.id # << >> THEN body.id[1] ELSE generatedId,
               name |-> body.name[1], startTime |-> body.startTime[1],
               endTime |-> body.endTime[1]]
  IN  /\ trav = Idle
      /\ IF MissingRequired(body)
         THEN /\ result' = Response(400, "validation", << >>, FALSE)
              /\ UNCHANGED <<tasks, skills, requiresSkill>>
         ELSE IF ~up
         THEN /\ result' = Response(500, "unavailable", << >>, FALSE)
              /\ UNCHANGED <<tasks, skills, requiresSkill>>
         ELSE IF createTaskFails(task)
         THEN /\ result' = Response(500, "constraint", << >>, FALSE)
              /\ UNCHANGED <<tasks, skills, requiresSkill>>
         ELSE /\ createTaskWrites(task)
              /\ result' = Response(200, "", returnedTask(createTaskRows(task)), FALSE)
      /\ UNCHANGED <<dependsOn, commits, files, modifies, demonstrates, implements,
                     hasSkillLevel, taskIdUnique, now, mockTasks, trav, connection, modified>>

\* a handler that pushes the task before it validates the body
PostDemoWriteFirst(body) ==
  LET field(opt, default) == IF opt = << >> THEN default ELSE opt[1]
      newTask == [id |-> generatedId, name |-> field(body.name, ""),
                  status |-> field(body.status, "pending"),
                  startTime |-> field(body.startTime, 0),
                  endTime |-> field(body.endTime, 0), updatedAt |-> << >>]
  IN  /\ trav = Idle
      /\ mockTasks' = Append(mockTasks, newTask)
      /\ result' = IF MissingRequired(body)
                   THEN Response(400, "validation", << >>, FALSE)
                   ELSE Response(200, "", <<newTask>>, TRUE)
      /\ UNCHANGED <<graph, taskIdUnique, now, trav, connection, modified>>

PostDemo(body) ==
  LET newTask == [id |-> generatedId, name |-> body.name[1],
                  status |-> IF body.status # << >> THEN body.status[1] ELSE "pending",
                  startTime |-> body.startTime[1], endTime |-> body.endTime[1],
                  updatedAt |-> << >>]
  IN  /\ trav = Idle
      /\ IF MissingRequired(body)
         THEN /\ result' = Response(400, "validation", << >>, FALSE)
              /\ UNCHANGED mockTasks
         ELSE /\ mockTasks' = Append(mockTasks, newTask)
              /\ result' = Response(200, "", <<newTask>>, TRUE)
      /\ UNCHANGED <<graph, taskIdUnique, now, trav, connection, modified>>

PutLive(body, up) ==
  /\ trav = Idle
  /\ IF body.id = << >>
     THEN /\ result' = Response(400, "validation", << >>, FALSE)
          /\ UNCHANGED tasks
     ELSE IF body.status = << >>
     THEN /\ result' = Response(400, "no update fields", << >>, FALSE)
          /\ UNCHANGED tasks
     ELSE IF ~up
     THEN /\ result' = Response(500, "unavailable", << >>, FALSE)
          /\ UNCHANGED tasks
     ELSE /\ updateTaskStatusWrites(body.id[1], body.status[1])
          /\ result' = Response(200, "", returnedTask(updateTaskStatusRows(body.id[1])),
                                FALSE)
  /\ UNCHANGED <<dependsOn, requiresSkill, skills, commits, files, modifies,
                 demonstrates, implements, hasSkillLevel, taskIdUnique, now,
                 mockTasks, trav, connection, modified>>

\* { ...mockTasks[index], ...body, updatedAt }
mergedTask(old, body) ==
  LET sent == { k \in DOMAIN body : body[k] # << >> }
  IN  [k \in DOMAIN old \cup sent \cup {"updatedAt"} |->
         IF k = "updatedAt" THEN <<now>>
         ELSE IF k \in sent THEN body[k][1]
         ELSE old[k]]

\* mockTasks.findIndex(t => t.id === id), 0 when there is none
findIndex(id) ==
  LET hit == {i \in 1..Len(mockTasks) : mockTasks[i].id = id}
  IN  IF hit = {} THEN 0 ELSE CHOOSE i \in hit : \A j \in hit : i <= j

PutDemo(body) ==
  /\ trav = Idle
  /\ IF body.id = << >>
     THEN /\ result' = Response(400, "validation", << >>, FALSE)
          /\ UNCHANGED mockTasks
     ELSE IF findIndex(body.id[1]) = 0
     THEN /\ result' = Response(404, "not found", << >>, TRUE)
          /\ UNCHANGED mockTasks
     ELSE LET index == findIndex(body.id[1])
          IN  /\ mockTasks' = [mockTasks EXCEPT ![index] = mergedTask(@, body)]
              /\ result' = Response(200, "", <<mockTasks'[index]>>, TRUE)
  /\ UNCHANGED <<graph, taskIdUnique, now, trav, connection, modified>>

DeleteLive(id, up) ==
  /\ trav = Idle
  /\ IF id = << >>
     THEN /\ result' = Response(400, "validation", << >>, FALSE)
          /\ UNCHANGED <<tasks, dependsOn, requiresSkill, implements>>
     ELSE IF ~up
     THEN /\ result' = Response(500, "unavailable", << >>, FALSE)
          /\ UNCHANGED <<tasks, dependsOn, requiresSkill, implements>>
     ELSE /\ deleteTaskWrites(id[1])
          \* count(*) of the deleted rows, compared with 0
          /\ result' = [Response(200, "", << >>, FALSE) EXCEPT
                          !.deleted = <<TaskNodesWithId(id[1]) # {}>>]
  /\ UNCHANGED <<skills, commits, files, modifies, demonstrates, hasSkillLevel,
                 taskIdUnique, now, mockTasks, trav, connection, modified>>

DeleteDemo(id) ==
  /\ trav = Idle
  /\ IF id = << >>
     THEN /\ result' = Response(400, "validation", << >>, FALSE)
          /\ UNCHANGED mockTasks
     ELSE IF findIndex(id[1]) = 0
     THEN /\ result' = Response(404, "not found", << >>, TRUE)
          /\ UNCHANGED mockTasks
     ELSE LET index == findIndex(id[1])
          IN  /\ mockTasks' = [i \in 1..(Len(mockTasks) - 1) |->
                                 IF i < index THEN mockTasks[i] ELSE mockTasks[i + 1]]
              /\ result' = [Response(200, "", << >>, TRUE) EXCEPT !.deleted = <<TRUE>>]
  /\ UNCHANGED <<graph, taskIdUnique, now, trav, connection, modified>>


\* update_task_status of the MCP server: postAPI('/tasks', { id: taskId, status })
updateTaskStatusRequest(taskId, status) ==
  [id |-> <<taskId>>, name |-> << >>, startTime |-> << >>, endTime |-> << >>,
   status |-> <<status>>]

\* what the tool reports for the response it got
handleUpdateTaskStatusReport(response) ==
  [success |-> response.success,
   error |-> IF response.success THEN "" ELSE response.error]

\* ------------------------------------------------------------------------
\* Specification of /api/tasks: every request is served by the live handler
\* and then by the demo handler, each against its own store
\* ------------------------------------------------------------------------
ClientId == <<"task", 0>>

\* a body per case: generated id, client id, end before start with a status,
\* and one body for each missing required field
PostBodies ==
  { [id |-> << >>, name |-> <<"Build login api">>, startTime |-> <<1>>,
     endTime |-> <<MaxTime>>, status |-> << >>],
    [id |-> <<ClientId>>, name |-> <<"Build login api">>, startTime |-> <<1>>,
     endTime |-> <<MaxTime>>, status |-> << >>],
    [id |-> <<ClientId>>, name |-> <<"Build login api">>, startTime |-> <<1>>,
     endTime |-> <<1>>, status |-> <<"completed">>],
    [id |-> << >>, name |-> << >>, startTime |-> <<1>>, endTime |-> <<MaxTime>>,
     status |-> << >>],
    [id |-> << >>, name |-> <<"Build login api">>, startTime |-> << >>,
     endTime |-> <<MaxTime>>, status |-> << >>],
    [id |-> <<ClientId>>, name |-> <<"Build login api">>, startTime |-> <<1>>,
     endTime |-> << >>, status |-> << >>] }

PutBodies ==
  { [id |-> << >>, status |-> <<"in_progress">>, endTime |-> << >>],
    [id |-> <<ClientId>>, status |-> <<"in_progress">>, endTime |-> << >>],
    [id |-> <<ClientId>>, status |-> << >>, endTime |-> <<MaxTime>>] }

DeleteIds == {<< >>, <<ClientId>>}
GetDates == {<< >>, <<0>>}

InitApi ==
  /\ driver = << >> /\ handles = << >> /\ calls = << >> /\ modified = EmptyBag
  /\ tasks = << >> /\ dependsOn = EmptyBag /\ requiresSkill = EmptyBag /\ skills = {}
  /\ commits = << >> /\ files = {} /\ modifies = EmptyBag /\ demonstrates = EmptyBag
  /\ implements = EmptyBag /\ hasSkillLevel = << >> /\ taskIdUnique = FALSE
  /\ mockTasks = DemoData
  /\ now = 0
  /\ lastOp = [name |-> "init"] /\ result = None /\ trav = Idle

\* the last request has been served by both handlers
Replayed ==
  IF lastOp.name \in {"init", "clock", "initializeDatabase"} THEN TRUE
  ELSE lastOp.mode = "demo"
ReplayOf(name) == IF lastOp.name = name THEN lastOp.mode = "live" ELSE FALSE

postedId(body) == IF body.id # << >> THEN body.id[1] ELSE generatedId

ApiPostLive ==
  /\ Replayed
  /\ Cardinality(DOMAIN tasks) < MaxApiTasks
  /\ Len(mockTasks) < MaxApiTasks + Len(DemoData)
  /\ \E body \in PostBodies, up \in BOOLEAN :
       /\ PostLive(body, up)
       /\ lastOp' = [name |-> "POST", mode |-> "live", body |-> body, up |-> up,
                     changed |-> graph' # graph,
                     existed |-> TaskNodesWithId(postedId(body)) # {},
                     live |-> << >>]

ApiPostDemo ==
  /\ ReplayOf("POST")
  /\ PostDemo(lastOp.body)
  /\ lastOp' = [lastOp EXCEPT !.mode = "demo", !.up = TRUE,
                              !.changed = mockTasks' # mockTasks,
                              !.existed = findIndex(generatedId) # 0,
                              !.live = <<result>>]

ApiPutLive ==
  /\ Replayed
  /\ \E body \in PutBodies, up \in BOOLEAN :
       /\ PutLive(body, up)
       /\ lastOp' = [name |-> "PUT", mode |-> "live", body |-> body, up |-> up,
                     changed |-> graph' # graph,
                     existed |-> body.id # << >> /\ TaskNodesWithId(body.id[1]) # {},
                     live |-> << >>]

ApiPutDemo ==
  /\ ReplayOf("PUT")
  /\ PutDemo(lastOp.body)
  /\ lastOp' = [lastOp EXCEPT !.mode = "demo", !.up = TRUE,
                              !.changed = mockTasks' # mockTasks,
                              !.existed = lastOp.body.id # << >>
                                            /\ findIndex(lastOp.body.id[1]) # 0,
                              !.live = <<result>>]

ApiDeleteLive ==
  /\ Replayed
  /\ \E id \in DeleteIds, up \in BOOLEAN :
       /\ DeleteLive(id, up)
       /\ lastOp' = [name |-> "DELETE", mode |-> "live", body |-> [id |-> id], up |-> up,
                     changed |-> graph' # graph,
                     existed |-> id # << >> /\ TaskNodesWithId(id[1]) # {},
                     live |-> << >>]

ApiDeleteDemo ==
  /\ ReplayOf("DELETE")
  /\ DeleteDemo(lastOp.body.id)
  /\ lastOp' = [lastOp EXCEPT !.mode = "demo", !.up = TRUE,
                              !.changed = mockTasks' # mockTasks,
                              !.existed = lastOp.body.id # << >>
                                            /\ findIndex(lastOp.body.id[1]) # 0,
                              !.live = <<result>>]

ApiGetLive ==
  /\ Replayed
  /\ \E date \in GetDates, up \in BOOLEAN :
       /\ GetLive(date, up)
       /\ lastOp' = [name |-> "GET", mode |-> "live", body |-> [date |-> date], up |-> up,
                     changed |-> FALSE, existed |-> FALSE, live |-> << >>]

ApiGetDemo ==
  /\ ReplayOf("GET")
  /\ GetDemo(lastOp.body.date)
  /\ lastOp' = [lastOp EXCEPT !.mode = "demo", !.up = TRUE, !.live = <<result>>]

\* the MCP tool, against a live server and against a demo server
handleUpdateTaskStatusLive ==
  /\ Replayed
  /\ \E st \in {"in_progress", "done"}, up \in BOOLEAN :
       /\ PostLive(updateTaskStatusRequest(ClientId, st), up)
       /\ lastOp' = [name |-> "handleUpdateTaskStatus", mode |-> "live",
                     body |-> updateTaskStatusRequest(ClientId, st), up |-> up,
                     changed |-> graph' # graph,
                     existed |-> TaskNodesWithId(ClientId) # {},
                     live |-> << >>]

handleUpdateTaskStatusDemo ==
  /\ ReplayOf("handleUpdateTaskStatus")
  /\ PostDemo(lastOp.body)
  /\ lastOp' = [lastOp EXCEPT !.mode = "demo", !.up = TRUE,
                              !.changed = mockTasks' # mockTasks,
                              !.existed = findIndex(lastOp.body.id[1]) # 0,
                              !.live = <<result>>]

ApiInitializeDatabase == Replayed /\ initializeDatabase
ApiAdvanceClock == Replayed /\ AdvanceClock

NextApi ==
  \/ ApiPostLive
  \/ ApiPostDemo
  \/ ApiPutLive
  \/ ApiPutDemo
  \/ ApiDeleteLive
  \/ ApiDeleteDemo
  \/ ApiGetLive
  \/ ApiGetDemo
  \/ handleUpdateTaskStatusLive
  \/ handleUpdateTaskStatusDemo
  \/ ApiInitializeDatabase
  \/ ApiAdvanceClock

SpecApi == InitApi /\ [][NextApi]_vars


\* ------------------------------------------------------------------------
\* Claims about /api/tasks
\* ------------------------------------------------------------------------
IsRequest(names) == lastOp.name \in names
StoredWithId(id) ==
  IF lastOp.mode = "live" THEN Cardinality(TaskNodesWithId(id))
  ELSE Cardinality({i \in 1..Len(mockTasks) : mockTasks[i].id = id})

\* C12: no two stored tasks share an id, in the graph or in the demo list, and
\* a create request whose id is already stored succeeds and leaves exactly one
\* task with that id
C12_TaskIdsUnique ==
  /\ \A m, n \in DOMAIN tasks : tasks[m].id = tasks[n].id => m = n
  /\ \A i, j \in 1..Len(mockTasks) : mockTasks[i].id = mockTasks[j].id => i = j
  /\ IF IsRequest({"POST"})
     THEN (~MissingRequired(lastOp.body) /\ lastOp.up /\ lastOp.existed)
            => /\ result.success
               /\ StoredWithId(IF lastOp.mode = "live" THEN postedId(lastOp.body)
                               ELSE generatedId) = 1
     ELSE TRUE

\* C13: every task stored by a create request ends strictly after it starts,
\* and a create request with endTime <= startTime is rejected and stores nothing
C13_EndAfterStart ==
  /\ \A n \in DOMAIN tasks : tasks[n].endTime > tasks[n].startTime
  /\ \A i \in 1..Len(mockTasks) : mockTasks[i].endTime > mockTasks[i].startTime
  /\ IF IsRequest({"POST"})
     THEN (~MissingRequired(lastOp.body)
             /\ lastOp.body.endTime[1] <= lastOp.body.startTime[1])
            => result.status = 400 /\ ~lastOp.changed
     ELSE TRUE

\* C14: a create request without name, startTime or endTime is answered with
\* the validation error and changes neither the graph nor the demo list
C14_MissingFieldRejected ==
  IF IsRequest({"POST", "handleUpdateTaskStatus"})
  THEN MissingRequired(lastOp.body)
         => result.status = 400 /\ result.error = "validation" /\ ~lastOp.changed
  ELSE TRUE

\* the demo handler has rejected a body without endTime while tasks are stored
C14_Witness ==
  IF IsRequest({"POST"})
  THEN /\ lastOp.mode = "demo"
       /\ lastOp.body.endTime = << >> /\ lastOp.body.name # << >>
       /\ lastOp.live[1].status = 400
       /\ result.status = 400
       /\ tasks # << >> /\ Len(mockTasks) > Len(DemoData)
  ELSE FALSE

\* C16: a GET whose query fails for want of a connection is still answered
\* with success, the demo list and isDemo = true
C16_GetFallsBackToDemo ==
  IF IsRequest({"GET"})
  THEN (lastOp.mode = "live" /\ ~lastOp.up)
         => result.success /\ result.isDemo /\ result.tasks = mockTasks
  ELSE TRUE

\* C17: the demo handler and the live handler answer every create, update and
\* delete request alike: the same outcome and, for the task returned, the same
\* status, startTime and endTime
SameTask(a, b) ==
  IF a = << >> \/ b = << >> THEN a = b
  ELSE /\ a[1].status = b[1].status
       /\ a[1].startTime = b[1].startTime
       /\ a[1].endTime = b[1].endTime
C17_DemoLikeLive ==
  IF IsRequest({"POST", "PUT", "DELETE"})
  THEN (lastOp.mode = "demo" /\ lastOp.live[1].error # "unavailable")
         => /\ result.status = lastOp.live[1].status
            /\ result.error = lastOp.live[1].error
            /\ result.deleted = lastOp.live[1].deleted
            /\ SameTask(result.task, lastOp.live[1].task)
  ELSE TRUE

\* C19: update_task_status for a stored task and a status of the enumeration
\* stores that status and reports success
C19_UpdateTaskStatusTool ==
  IF IsRequest({"handleUpdateTaskStatus"})
  THEN (lastOp.existed /\ lastOp.up /\ lastOp.body.status[1] \in Statuses)
         => /\ handleUpdateTaskStatusReport(result).success
            /\ IF lastOp.mode = "live"
               THEN \A n \in TaskNodesWithId(lastOp.body.id[1]) :
                      tasks[n].status = lastOp.body.status[1]
               ELSE \A i \in 1..Len(mockTasks) :
                      mockTasks[i].id = lastOp.body.id[1]
                        => mockTasks[i].status = lastOp.body.status[1]
  ELSE TRUE


\* ------------------------------------------------------------------------
\* POST /api/graph
\* ------------------------------------------------------------------------
GraphResponse(status, error, rows, isDemo) ==
  [status |-> status, success |-> status = 200, error |-> error, result |-> rows,
   isDemo |-> isDemo]

\* the actions of the switch; link-skill, link-file and track-skill call
\* functions the store module does not export, so they write nothing
GraphActions == {"add-dependency", "link-skill", "link-file", "track-skill", "other"}

GraphPostLive(action, taskId, dependsOnTaskId, up) ==
  LET rows == addTaskDependencyRows(taskId, dependsOnTaskId)
  IN  /\ trav = Idle
      /\ IF action = "add-dependency"
         THEN IF up
              THEN /\ dependsOn' = MergeRels(dependsOn, rows)
                   /\ result' = GraphResponse(200, "", rows, FALSE)
              ELSE /\ UNCHANGED dependsOn
                   /\ result' = GraphResponse(500, "unavailable", << >>, FALSE)
         ELSE /\ UNCHANGED dependsOn
              /\ result' = IF action = "other"
                           THEN GraphResponse(400, "Unknown action", << >>, FALSE)
                           ELSE GraphResponse(200, "", << >>, FALSE)
      /\ UNCHANGED <<tasks, requiresSkill, skills, commits, files, modifies,
                     demonstrates, implements, hasSkillLevel, taskIdUnique, now,
                     mockTasks, trav, connection, modified>>
      /\ lastOp' = [name |-> "POST /api/graph", mode |-> "live", action |-> action,
                    arg |-> <<taskId, dependsOnTaskId>>, up |-> up,
                    changed |-> graph' # graph]

GraphPostDemo(action, taskId, dependsOnTaskId) ==
  /\ trav = Idle
  /\ result' = GraphResponse(200, "", << >>, TRUE)
  /\ lastOp' = [name |-> "POST /api/graph", mode |-> "demo", action |-> action,
                arg |-> <<taskId, dependsOnTaskId>>, up |-> TRUE, changed |-> FALSE]
  /\ UNCHANGED <<graph, taskIdUnique, now, mockTasks, trav, connection, modified>>

MaxGraphTasks == 2
GraphTaskInputs ==
  << [id |-> "t1", name |-> "Build login api", startTime |-> 0, endTime |-> MaxTime + 1],
     [id |-> "t2", name |-> "Deploy release", startTime |-> 1, endTime |-> MaxTime + 1] >>
GraphTaskIds == {"t1", "t2", "t3"}

GraphCreateTask ==
  /\ Cardinality(DOMAIN tasks) < MaxGraphTasks
  /\ \E i \in 1..Len(GraphTaskInputs) : createTask(GraphTaskInputs[i])
GraphApiPostLive ==
  /\ BagCardinality(dependsOn) < MaxDeps
  /\ \E action \in GraphActions, a, b \in GraphTaskIds, up \in BOOLEAN :
       GraphPostLive(action, a, b, up)
GraphApiPostDemo ==
  \E action \in GraphActions, a, b \in GraphTaskIds : GraphPostDemo(action, a, b)
GraphAddTaskDependency ==
  \E a, b \in GraphTaskIds : addTaskDependency(a, b)

NextGraphApi ==
  \/ GraphCreateTask
  \/ GraphApiPostLive
  \/ GraphApiPostDemo
  \/ GraphAddTaskDependency

SpecGraphApi == Init /\ [][NextGraphApi]_vars

\* C15: adding a dependency between tasks of which one is not stored signals
\* an error to the caller, which therefore does not answer success, and writes
\* nothing
C15_AbsentTaskSignalled ==
  IF lastOp.name = "POST /api/graph"
  THEN (/\ lastOp.mode = "live" /\ lastOp.up /\ lastOp.action = "add-dependency"
        /\ \E id \in {lastOp.arg[1], lastOp.arg[2]} : TaskNodesWithId(id) = {})
         => ~result.success /\ ~lastOp.changed
  ELSE TRUE


\* ------------------------------------------------------------------------
\* The database connection: getDriver, closeDriver, runQuery
\* ------------------------------------------------------------------------
MaxHandles == 3
MaxCalls == 2

\* if (!driver) { driver = neo4j.driver(...) } return driver
getDriverCreates == driver = << >>
getDriverHandle == IF getDriverCreates THEN Len(handles) + 1 ELSE driver[1]
getDriverWrites ==
  IF getDriverCreates
  THEN /\ handles' = Append(handles, "open")
       /\ driver' = <<Len(handles) + 1>>
  ELSE UNCHANGED <<driver, handles>>

RemoveAt(seq, i) == [j \in 1..(Len(seq) - 1) |-> IF j < i THEN seq[j] ELSE seq[j + 1]]

\* getDriver(); neo4j.driver may throw, and then nothing is memoized
getDriver ==
  /\ trav = Idle
  /\ getDriverCreates => Len(handles) < MaxHandles
  /\ \E ok \in BOOLEAN :
       IF ok \/ ~getDriverCreates
       THEN /\ getDriverWrites
            /\ result' = getDriverHandle
            /\ lastOp' = [name |-> "getDriver", had |-> driver, threw |-> FALSE]
       ELSE /\ UNCHANGED <<driver, handles>>
            /\ result' = 0
            /\ lastOp' = [name |-> "getDriver", had |-> driver, threw |-> TRUE]
  /\ UNCHANGED <<graph, taskIdUnique, now, mockTasks, trav, calls, modified>>

\* closeDriver up to its await: if (driver) { await driver.close() ...
closeDriverStart ==
  /\ trav = Idle
  /\ Len(calls) < MaxCalls
  /\ IF driver = << >>
     THEN UNCHANGED <<handles, calls>>
     ELSE /\ handles' = [handles EXCEPT ![driver[1]] = "closed"]
          /\ calls' = Append(calls, [op |-> "closeDriver", handle |-> driver[1]])
  /\ lastOp' = [name |-> "closeDriver", had |-> driver, threw |-> FALSE]
  /\ result' = 0
  /\ UNCHANGED <<graph, taskIdUnique, now, mockTasks, trav, driver, modified>>

\* closeDriver after its await: ... driver = null }
closeDriverFinish ==
  /\ trav = Idle
  /\ \E i \in 1..Len(calls) :
       /\ calls[i].op = "closeDriver"
       /\ calls' = RemoveAt(calls, i)
       /\ driver' = << >>
       /\ lastOp' = [name |-> "closeDriver done", had |-> driver, threw |-> FALSE]
  /\ result' = 0
  /\ UNCHANGED <<graph, taskIdUnique, now, mockTasks, trav, handles, modified>>

\* runQuery up to its await: const driver = getDriver(); driver.session();
\* await session.run(...)
runQueryStart ==
  /\ trav = Idle
  /\ Len(calls) < MaxCalls
  /\ getDriverCreates => Len(handles) < MaxHandles
  /\ \E ok \in BOOLEAN :
       IF ok \/ ~getDriverCreates
       THEN /\ getDriverWrites
            /\ calls' = Append(calls, [op |-> "runQuery", handle |-> getDriverHandle])
            /\ result' = getDriverHandle
            /\ lastOp' = [name |-> "runQuery", had |-> driver, threw |-> FALSE]
       ELSE /\ UNCHANGED <<driver, handles, calls>>
            /\ result' = 0
            /\ lastOp' = [name |-> "runQuery", had |-> driver, threw |-> TRUE]
  /\ UNCHANGED <<graph, taskIdUnique, now, mockTasks, trav, modified>>

\* runQuery after its await: the records, or the error of a query that the
\* server or a closed driver refused; the session is closed either way
runQueryFinish ==
  /\ trav = Idle
  /\ \E i \in 1..Len(calls) :
       /\ calls[i].op = "runQuery"
       /\ calls' = RemoveAt(calls, i)
       /\ \E ok \in BOOLEAN :
            lastOp' = [name |-> "runQuery done", had |-> driver,
                       threw |-> ~ok \/ handles[calls[i].handle] = "closed"]
       /\ result' = calls[i].handle
  /\ UNCHANGED <<graph, taskIdUnique, now, mockTasks, trav, driver, handles, modified>>

NextDriver ==
  \/ getDriver
  \/ closeDriverStart
  \/ closeDriverFinish
  \/ runQueryStart
  \/ runQueryFinish

SpecDriver == Init /\ [][NextDriver]_vars

\* C18: at most one driver handle is open at any time; getDriver creates a
\* handle only when none is memoized, getDriver and runQuery otherwise return
\* the memoized one, and after closeDriver the next getDriver creates a new one
LiveHandles == {h \in 1..Len(handles) : handles[h] = "open"}
C18_OneLiveHandle ==
  /\ Cardinality(LiveHandles) <= 1
  /\ IF lastOp.name \in {"getDriver", "runQuery"}
     THEN ~lastOp.threw =>
            /\ lastOp.had # << >> => result = lastOp.had[1]
            /\ lastOp.had = << >> => result = Len(handles) /\ handles[result] = "open"
            /\ driver = <<result>>
     ELSE TRUE
  /\ IF lastOp.name = "closeDriver done" THEN driver = << >> ELSE TRUE


\* ------------------------------------------------------------------------
\* scripts/analyze-commits.js: storeCommit(session, commit)
\* ------------------------------------------------------------------------
\* MERGE (c:Commit {hash}) ON CREATE SET ... ON MATCH SET c.message,
\* c.filesChanged; then, for each file, MERGE (f:File) and MERGE (c)-[:MODIFIED]->(f)
analyzeStoreCommit(commit) ==
  LET created == [message |-> commit.message, timestamp |-> commit.timestamp,
                  branch |-> "main", filesChanged |-> <<commit.filesChanged>>]
      fileRows == Unwind(<<commit.hash>>, commit.filesChanged)
  IN  /\ trav = Idle
      /\ commits' = IF commit.hash \in DOMAIN commits
                    THEN [commits EXCEPT ![commit.hash].message = commit.message,
                                         ![commit.hash].filesChanged =
                                           <<commit.filesChanged>>]
                    ELSE (commit.hash :> created) @@ commits
      /\ files' = files \cup Range(commit.filesChanged)
      /\ modified' = MergeRels(modified, fileRows)
      /\ lastOp' = [name |-> "analyze-commits", arg |-> commit, again |-> FALSE,
                    changed |-> commits' # commits, before |-> commits]
      /\ result' = None
      /\ UNCHANGED <<tasks, dependsOn, requiresSkill, skills, modifies, demonstrates,
                     implements, hasSkillLevel, taskIdUnique, now, mockTasks, trav,
                     connection>>

MaxIngestCommits == 2
IngestInputs ==
  [hash : 1..MaxIngestCommits, message : {"Write unit tests", "Deploy release"},
   timestamp : {0}, filesChanged : {<< >>, <<"auth.test.ts">>}]

IngestStoreCommit == \E commit \in IngestInputs : storeCommit(commit)
IngestAnalyzeCommits == \E commit \in IngestInputs : analyzeStoreCommit(commit)

NextIngest == IngestStoreCommit \/ IngestAnalyzeCommits

SpecIngest == Init /\ [][NextIngest]_vars

\* C20: an ingestion, by storeCommit or by the analysis script, leaves every
\* Commit node that was stored before it with the properties it had
C20_CommitNodesImmutable ==
  IF lastOp.name \in {"storeCommit", "analyze-commits"}
  THEN \A h \in DOMAIN lastOp.before :
         h \in DOMAIN commits /\ commits[h] = lastOp.before[h]
  ELSE TRUE


\* ------------------------------------------------------------------------
\* deleteTask
\* ------------------------------------------------------------------------
\* DETACH DELETE t RETURN count(*) as deleted; the caller gets deleted > 0
deleteTask(taskId) ==
  /\ trav = Idle
  /\ deleteTaskWrites(taskId)
  /\ lastOp' = [name |-> "deleteTask", arg |-> taskId,
                detached |-> [dependsOn |-> BagCardinality(dependsOn) - BagCardinality(dependsOn'),
                              requiresSkill |-> BagCardinality(requiresSkill)
                                                  - BagCardinality(requiresSkill'),
                              implements |-> BagCardinality(implements)
                                               - BagCardinality(implements')]]
  /\ result' = (TaskNodesWithId(taskId) # {})
  /\ UNCHANGED <<skills, commits, files, modifies, demonstrates, hasSkillLevel,
                 taskIdUnique, now, mockTasks, trav, connection, modified>>

MaxDeleteTasks == 2
MaxDeleteCommits == 1
DeleteTaskInputs ==
  << [id |-> "t1", name |-> "Fix auth session test", startTime |-> 0, endTime |-> MaxTime],
     [id |-> "t2", name |-> "Build login api", startTime |-> 1, endTime |-> MaxTime],
     [id |-> "t3", name |-> "Deploy release", startTime |-> 1, endTime |-> MaxTime] >>
DeleteTaskIds == {"t1", "t2", "t3"}

DeleteCreateTask ==
  /\ Cardinality(DOMAIN tasks) < MaxDeleteTasks
  /\ \E i \in 1..Len(DeleteTaskInputs) :
       /\ TaskNodesWithId(DeleteTaskInputs[i].id) = {}
       /\ createTask(DeleteTaskInputs[i])
DeleteAddTaskDependency == \E a, b \in DeleteTaskIds : addTaskDependency(a, b)
DeleteStoreCommit ==
  /\ Cardinality(DOMAIN commits) < MaxDeleteCommits
  /\ storeCommit([hash |-> Cardinality(DOMAIN commits) + 1, message |-> "Deploy release",
                  timestamp |-> 1, filesChanged |-> <<"auth.test.ts">>])
DeleteDeleteTask == \E id \in DeleteTaskIds : deleteTask(id)
DeleteGetBlockedTasks == \E id \in DeleteTaskIds : getBlockedTasks(id)

NextDelete ==
  \/ DeleteCreateTask
  \/ DeleteAddTaskDependency
  \/ DeleteStoreCommit
  \/ linkCommitsToTasks
  \/ DeleteDeleteTask
  \/ DeleteGetBlockedTasks

SpecDelete == Init /\ [][NextDelete]_vars

EndNodesExist ==
  /\ \A e \in BagToSet(dependsOn) : e[1] \in DOMAIN tasks /\ e[2] \in DOMAIN tasks
  /\ \A e \in BagToSet(requiresSkill) : e[1] \in DOMAIN tasks /\ e[2] \in skills
  /\ \A e \in BagToSet(implements) : e[1] \in DOMAIN commits /\ e[2] \in DOMAIN tasks
  /\ \A e \in BagToSet(modifies) : e[1] \in DOMAIN commits /\ e[2] \in files
  /\ \A e \in BagToSet(demonstrates) : e[1] \in DOMAIN commits /\ e[2] \in skills

\* C21: every relationship has two existing end nodes, and after deleteTask(id)
\* no Task node has the id, no task depends on it and no DEPENDS_ON trail into
\* a stored task passes through it
C21_DetachDelete ==
  /\ EndNodesExist
  /\ lastOp.name = "deleteTask" =>
       /\ TaskNodesWithId(lastOp.arg) = {}
       /\ \A e \in BagToSet(dependsOn) :
            tasks[e[1]].id # lastOp.arg /\ tasks[e[2]].id # lastOp.arg
       /\ \A t \in DOMAIN tasks : \A trail \in TrailsInto(dependsOn, t) :
            \A i \in 1..Len(trail) :
              tasks[trail[i][1]].id # lastOp.arg /\ tasks[trail[i][2]].id # lastOp.arg

\* a task with a dependency, a dependant or both, skills and an implementing
\* commit has been deleted while another task stays
C21_Witness ==
  /\ lastOp.name = "deleteTask"
  /\ result = TRUE
  /\ lastOp.detached.dependsOn >= 2
  /\ lastOp.detached.requiresSkill >= 1
  /\ lastOp.detached.implements >= 1
  /\ tasks # << >>


\* ------------------------------------------------------------------------
\* getSkillImprovementTrend
\* ------------------------------------------------------------------------
TrendLimit == 12

\* MATCH (m:Month)-[r:HAS_SKILL_LEVEL]->(s:Skill {name}) ... ORDER BY m.id ASC LIMIT 12
\* (a skill has one edge per month, so the order has no ties)
trendRows(skillName) ==
  LET edges == { e \in BagToSet(hasSkillLevel) : e.skill = skillName }
      at(i) == CHOOSE e \in edges : Cardinality({ d \in edges : d.month < e.month }) = i - 1
  IN  { Limit([i \in 1..Cardinality(edges) |->
                 [month |-> at(i).month, level |-> at(i).level, commits |-> at(i).commits]],
              TrendLimit) }

trendOf(data) ==
  IF Len(data) >= 2
  THEN LET first == data[1].level
           last == data[Len(data)].level
       IN  [data |-> data,
            trend |-> IF last > first THEN "improving"
                      ELSE IF last < first THEN "declining" ELSE "stable",
            change |-> last - first]
  ELSE [data |-> data, trend |-> "insufficient_data", change |-> 0]

getSkillImprovementTrend(skillName) ==
  /\ trav = Idle
  /\ \E data \in trendRows(skillName) : result' = trendOf(data)
  /\ lastOp' = [name |-> "getSkillImprovementTrend", arg |-> skillName]
  /\ UNCHANGED <<graph, taskIdUnique, now, mockTasks, trav, connection, modified>>

MaxTrendMonths == 13

\* the months are recorded one after the other
TrendRecord ==
  LET month == Cardinality({ e.month : e \in BagToSet(hasSkillLevel) }) + 1
  IN  /\ month <= MaxTrendMonths
      /\ \E level \in {3, 5} : recordMonthlySkillLevel(month, "css", level, 0, 0)
TrendGet == \E sk \in {"css", "nodejs"} : getSkillImprovementTrend(sk)

NextTrend == TrendRecord \/ TrendGet

SpecTrend == Init /\ [][NextTrend]_vars

\* C22: the trend compares the earliest and the latest level among the skill's
\* 12 most recent monthly records (improving, declining, stable, with the
\* difference as change), and is insufficient_data with change 0 below 2 records
RecentRecords(skillName) ==
  LET edges == { e \in BagToSet(hasSkillLevel) : e.skill = skillName }
  IN  { e \in edges : Cardinality({ d \in edges : d.month > e.month }) < TrendLimit }
C22_TrendOfRecentMonths ==
  lastOp.name = "getSkillImprovementTrend" =>
    LET recent == RecentRecords(lastOp.arg)
    IN  IF Cardinality(recent) >= 2
        THEN LET earliest == CHOOSE e \in recent : \A d \in recent : e.month <= d.month
                 latest == CHOOSE e \in recent : \A d \in recent : e.month >= d.month
             IN  /\ result.change = latest.level - earliest.level
                 /\ result.trend = IF latest.level > earliest.level THEN "improving"
                                   ELSE IF latest.level < earliest.level THEN "declining"
                                   ELSE "stable"
        ELSE result.trend = "insufficient_data" /\ result.change = 0


\* ------------------------------------------------------------------------
\* POST /api/graph (monthly): the snapshot of a requested month
\* ------------------------------------------------------------------------
\* body.month || new Date().toISOString().slice(0, 7)
requestedMonth(body) == IF body.month # << >> THEN body.month[1] ELSE yearMonthOf(now)

\* neo4j.calculateMonthlySnapshot(month): the function declares no parameter
MonthlyPostLive(body, up) ==
  /\ trav = Idle
  /\ IF up
     THEN /\ hasSkillLevel' = mergeSkillLevels(hasSkillLevel, snapshotRows)
          /\ result' = [status |-> 200, success |-> TRUE, snapshot |-> snapshotReturned,
                        month |-> <<requestedMonth(body)>>, isDemo |-> FALSE]
     ELSE /\ UNCHANGED hasSkillLevel
          /\ result' = [status |-> 500, success |-> FALSE, snapshot |-> {},
                        month |-> << >>, isDemo |-> FALSE]
  /\ lastOp' = [name |-> "POST /api/monthly", mode |-> "live", up |-> up,
                month |-> requestedMonth(body), before |-> hasSkillLevel]
  /\ UNCHANGED <<tasks, dependsOn, requiresSkill, skills, commits, files, modifies,
                 demonstrates, implements, taskIdUnique, now, mockTasks, trav,
                 connection, modified>>

MonthlyPostDemo(body) ==
  /\ trav = Idle
  /\ result' = [status |-> 200, success |-> TRUE, snapshot |-> {},
                month |-> <<requestedMonth(body)>>, isDemo |-> TRUE]
  /\ lastOp' = [name |-> "POST /api/monthly", mode |-> "demo", up |-> TRUE,
                month |-> requestedMonth(body), before |-> hasSkillLevel]
  /\ UNCHANGED <<graph, taskIdUnique, now, mockTasks, trav, connection, modified>>

MonthlyBodies == { [month |-> << >>] } \cup { [month |-> <<m>>] : m \in 0..yearMonthOf(MaxTime) }

MonthlyApiPostLive == \E body \in MonthlyBodies, up \in BOOLEAN : MonthlyPostLive(body, up)
MonthlyApiPostDemo == \E body \in MonthlyBodies : MonthlyPostDemo(body)

NextMonthly ==
  \/ AdvanceClock
  \/ LevelCreateTask
  \/ LevelUpdateTaskStatus
  \/ LevelStoreCommit
  \/ MonthlyApiPostLive
  \/ MonthlyApiPostDemo

SpecMonthly == Init /\ [][NextMonthly]_vars

\* commits demonstrating sk and completed tasks requiring sk inside the month
CommitsInWindow(sk, yearMonth) ==
  Cardinality({ c \in DOMAIN commits :
                  /\ BagIn(<<c, sk>>, demonstrates)
                  /\ commits[c].timestamp >= startOfMonthOf(yearMonth)
                  /\ commits[c].timestamp < startOfMonthOf(yearMonth + 1) })
TasksInWindow(sk, yearMonth) ==
  Cardinality({ t \in DOMAIN tasks :
                  /\ BagIn(<<t, sk>>, requiresSkill)
                  /\ tasks[t].status = "completed"
                  /\ tasks[t].updatedAt # << >>
                  /\ tasks[t].updatedAt[1] >= startOfMonthOf(yearMonth)
                  /\ tasks[t].updatedAt[1] < startOfMonthOf(yearMonth + 1) })

\* C23: the snapshot of month yearMonth counts, for each skill, the commits and
\* completed tasks inside that month only, and writes on the Month node of
\* yearMonth and on no other
C23_SnapshotOfRequestedMonth ==
  IF lastOp.name = "POST /api/monthly"
  THEN (lastOp.mode = "live" /\ lastOp.up) =>
         /\ \A e \in BagToSet(hasSkillLevel) :
              e.month # lastOp.month => e \in BagToSet(lastOp.before)
         /\ \A sk \in skills :
              (CommitsInWindow(sk, lastOp.month) > 0 \/ TasksInWindow(sk, lastOp.month) > 0)
                => /\ SkillLevelEdges(hasSkillLevel, lastOp.month, sk) # {}
                   /\ \A e \in SkillLevelEdges(hasSkillLevel, lastOp.month, sk) :
                        /\ e.commits = CommitsInWindow(sk, lastOp.month)
                        /\ e.tasksCompleted = TasksInWindow(sk, lastOp.month)
  ELSE TRUE


\* ------------------------------------------------------------------------
\* Range of skill levels
\* ------------------------------------------------------------------------
MaxSummaryTasks == 2

\* Math.round(x) for x = completed / Math.max(count, 1) * 10 >= 0
completionLevel(completed, count) ==
  LET d == IF count >= 1 THEN count ELSE 1
  IN  (2 * 10 * completed + d) \div (2 * d)

\* (task.keywords || []).forEach(kw => ...) over tasks.forEach
RECURSIVE keywordUses(_)
keywordUses(taskList) ==
  IF taskList = << >> THEN << >>
  ELSE LET task == Head(taskList)
       IN  [i \in 1..Len(task.keywords) |-> [kw |-> task.keywords[i], status |-> task.status]]
             \o keywordUses(Tail(taskList))

\* the keys of skillMap in insertion order
RECURSIVE skillMapKeys(_, _)
skillMapKeys(uses, seen) ==
  IF uses = << >> THEN << >>
  ELSE IF Head(uses).kw \in seen THEN skillMapKeys(Tail(uses), seen)
  ELSE <<Head(uses).kw>> \o skillMapKeys(Tail(uses), seen \cup {Head(uses).kw})

\* .sort((a, b) => b.level - a.level): stable, descending
sortByLevelDesc(rows) ==
  LET pos(i) == Cardinality({ j \in 1..Len(rows) : rows[j].level > rows[i].level })
                + Cardinality({ j \in 1..(i - 1) : rows[j].level = rows[i].level }) + 1
  IN  [k \in 1..Len(rows) |-> rows[CHOOSE i \in 1..Len(rows) : pos(i) = k]]

skillSummaries(taskList) ==
  LET uses == keywordUses(taskList)
      keys == skillMapKeys(uses, {})
      count(kw) == Cardinality({ i \in 1..Len(uses) : uses[i].kw = kw })
      completed(kw) == Cardinality({ i \in 1..Len(uses) :
                                        uses[i].kw = kw /\ uses[i].status = "completed" })
      rows == [i \in 1..Len(keys) |->
                 [name |-> keys[i], level |-> completionLevel(completed(keys[i]), count(keys[i])),
                  tasksCompleted |-> completed(keys[i]), totalTasks |-> count(keys[i])]]
      sorted == sortByLevelDesc(rows)
      names(q) == [i \in 1..Len(q) |-> q[i].name]
      improving(r) == r.level >= 7
      needsWork(r) == r.level < 5
  IN  [totalSkills |-> Len(sorted), skills |-> sorted,
       topSkills |-> names(Limit(sorted, 3)),
       improving |-> names(SelectSeq(sorted, improving)),
       needsWork |-> names(SelectSeq(sorted, needsWork))]

\* tasksRes.tasks is the answer of GET /tasks
handleGetSkills(taskList) ==
  /\ trav = Idle
  /\ result' = skillSummaries(taskList)
  /\ lastOp' = [name |-> "handleGetSkills", arg |-> taskList]
  /\ UNCHANGED <<graph, taskIdUnique, now, mockTasks, trav, connection, modified>>

SummaryTasks ==
  { [keywords |-> kws, status |-> st] :
      kws \in { << >>, <<"css">>, <<"css", "api">> },
      st \in {"pending", "completed"} }

SummaryTaskLists ==
  UNION { [1..n -> SummaryTasks] : n \in 0..MaxSummaryTasks }

RangeLevels == {0, 10, 11}

RangeRecord ==
  \E level \in RangeLevels : recordMonthlySkillLevel(yearMonthOf(now), "css", level, 0, 0)

RangeGetSkills == \E taskList \in SummaryTaskLists : handleGetSkills(taskList)

NextRange ==
  \/ LevelCreateTask
  \/ LevelUpdateTaskStatus
  \/ LevelStoreCommit
  \/ calculateMonthlySnapshot
  \/ RangeRecord
  \/ RangeGetSkills

SpecRange == Init /\ [][NextRange]_vars

\* C24: every level on a HAS_SKILL_LEVEL edge, and every level returned by the
\* skill summaries, is an integer between 0 and 10
C24_LevelsWithinRange ==
  /\ \A e \in BagToSet(hasSkillLevel) : e.level \in 0..10
  /\ IF lastOp.name = "handleGetSkills"
     THEN \A i \in 1..Len(result.skills) : result.skills[i].level \in 0..10
     ELSE TRUE



\* ------------------------------------------------------------------------
\* The domain of the task status
\* ------------------------------------------------------------------------
MaxStatusTasks == 2

\* what a caller may send: the three values and one outside them
StatusInputs == Statuses \cup {"done"}

StatusTaskIds == { <<"task", i>> : i \in 0..(MaxStatusTasks - 1) }

StatusCreateTask ==
  /\ Cardinality(DOMAIN tasks) < MaxStatusTasks
  /\ createTask([id |-> <<"task", Cardinality(DOMAIN tasks)>>, name |-> "Build login api",
                 startTime |-> 1, endTime |-> MaxTime])

StatusUpdateTaskStatus ==
  \E id \in StatusTaskIds, st \in StatusInputs : updateTaskStatus(id, st)

StatusPutBodies ==
  { [id |-> <<id>>, status |-> <<st>>, endTime |-> << >>] :
      id \in {ClientId, DemoData[1].id}, st \in StatusInputs }

StatusPutLive ==
  \E body \in StatusPutBodies, up \in BOOLEAN :
    /\ PutLive(body, up)
    /\ lastOp' = [name |-> "PUT", mode |-> "live", body |-> body, up |-> up]

StatusPutDemo ==
  \E body \in StatusPutBodies :
    /\ PutDemo(body)
    /\ lastOp' = [name |-> "PUT", mode |-> "demo", body |-> body, up |-> TRUE]

NextStatus ==
  \/ StatusCreateTask
  \/ StatusUpdateTaskStatus
  \/ StatusPutLive
  \/ StatusPutDemo

SpecStatus == InitApi /\ [][NextStatus]_vars

\* C25: every stored task has status pending, in_progress or completed
C25_StatusInDomain ==
  /\ \A n \in DOMAIN tasks : tasks[n].status \in Statuses
  /\ \A i \in 1..Len(mockTasks) : mockTasks[i].status \in Statuses



\* ------------------------------------------------------------------------
\* Readers concurrent with commit ingestion
\* ------------------------------------------------------------------------
\* duration('P30D'), in ticks
ImpactWindow == 30

\* getFileImpact: MATCH (f:File {name}); OPTIONAL MATCH (c:Commit)-[:MODIFIES]->(f)
\* WHERE c.timestamp > datetime() - duration('P30D'); OPTIONAL MATCH
\* (c)-[:IMPLEMENTS]->(t:Task); result[0] || { recentCommits: 0, ... }
getFileImpactResult(fileName) ==
  LET recent == { c \in DOMAIN commits :
                    /\ BagIn(<<c, fileName>>, modifies)
                    /\ commits[c].timestamp > now - ImpactWindow }
      related == { t \in DOMAIN tasks : \E c \in recent : BagIn(<<c, t>>, implements) }
  IN  IF fileName \in files
      THEN [recentCommits |-> Cardinality(recent),
            relatedTasks |-> { tasks[t].name : t \in related }]
      ELSE [recentCommits |-> 0, relatedTasks |-> {}]

getFileImpact(fileName) ==
  /\ trav = Idle
  /\ result' = getFileImpactResult(fileName)
  /\ lastOp' = [name |-> "getFileImpact", arg |-> fileName]
  /\ UNCHANGED <<graph, taskIdUnique, now, mockTasks, trav, connection, modified>>

\* the script's storeCommit up to its first await: the MERGE of the Commit node
analyzeStoreCommitNode(commit) ==
  /\ trav = Idle
  /\ \A i \in 1..Len(calls) : calls[i].op # "analyze-commits"
  /\ commits' = IF commit.hash \in DOMAIN commits
                THEN [commits EXCEPT ![commit.hash].message = commit.message,
                                     ![commit.hash].filesChanged = <<commit.filesChanged>>]
                ELSE (commit.hash :> [message |-> commit.message,
                                      timestamp |-> commit.timestamp, branch |-> "main",
                                      filesChanged |-> <<commit.filesChanged>>]) @@ commits
  /\ calls' = Append(calls, [op |-> "analyze-commits", commit |-> commit, file |-> 0])
  /\ lastOp' = [name |-> "analyze-commits node", arg |-> commit]
  /\ result' = None
  /\ UNCHANGED <<tasks, dependsOn, requiresSkill, skills, files, modifies, demonstrates,
                 implements, hasSkillLevel, taskIdUnique, now, mockTasks, trav,
                 driver, handles, modified>>

\* one turn of for (const file of commit.filesChanged): MERGE (f:File),
\* MATCH (c:Commit {hash}), MERGE (c)-[:MODIFIED]->(f)
analyzeStoreCommitFile ==
  /\ trav = Idle
  /\ \E i \in 1..Len(calls) :
       /\ calls[i].op = "analyze-commits"
       /\ calls[i].file < Len(calls[i].commit.filesChanged)
       /\ LET commit == calls[i].commit
              fileName == commit.filesChanged[calls[i].file + 1]
              rows == IF commit.hash \in DOMAIN commits
                      THEN << <<commit.hash, fileName>> >> ELSE << >>
          IN  /\ files' = files \cup {fileName}
              /\ modified' = MergeRels(modified, rows)
              /\ calls' = [calls EXCEPT ![i].file = @ + 1]
              /\ lastOp' = [name |-> "analyze-commits file", arg |-> commit]
  /\ result' = None
  /\ UNCHANGED <<tasks, dependsOn, requiresSkill, skills, commits, modifies, demonstrates,
                 implements, hasSkillLevel, taskIdUnique, now, mockTasks, trav,
                 driver, handles>>

\* the loop is over: storeCommit resolves
analyzeStoreCommitReturn ==
  /\ trav = Idle
  /\ \E i \in 1..Len(calls) :
       /\ calls[i].op = "analyze-commits"
       /\ calls[i].file = Len(calls[i].commit.filesChanged)
       /\ lastOp' = [name |-> "analyze-commits done", arg |-> calls[i].commit]
       /\ calls' = RemoveAt(calls, i)
  /\ result' = None
  /\ UNCHANGED <<graph, taskIdUnique, now, mockTasks, trav, driver, handles, modified>>

MaxReaderCommits == 2

ReaderCommits ==
  << [hash |-> 1, message |-> "Write unit tests", timestamp |-> 0,
      filesChanged |-> <<"auth.test.ts">>],
     [hash |-> 2, message |-> "Deploy release", timestamp |-> 0,
      filesChanged |-> <<"app.css", "auth.test.ts">>] >>

ReaderHashes == 1..Min(MaxReaderCommits, Len(ReaderCommits))

ReaderStoreCommit == \E h \in ReaderHashes : storeCommit(ReaderCommits[h])
ReaderAnalyzeCommits == \E h \in ReaderHashes : analyzeStoreCommitNode(ReaderCommits[h])
ReaderGetFileImpact == \E fileName \in {"app.css", "auth.test.ts"} : getFileImpact(fileName)

NextReaders ==
  \/ ReaderStoreCommit
  \/ ReaderAnalyzeCommits
  \/ analyzeStoreCommitFile
  \/ analyzeStoreCommitReturn
  \/ ReaderGetFileImpact

SpecReaders == Init /\ [][NextReaders]_vars

\* C26: in every state a reader can observe, each stored Commit node has a
\* MODIFIES link to each of its changed files, and a reader of a file's commits
\* is given every stored commit that changed the file
C26_CommitVisibleWithFileLinks ==
  /\ \A h \in DOMAIN commits :
       \A fileName \in Range(ReaderCommits[h].filesChanged) :
         BagIn(<<h, fileName>>, modifies)
  /\ IF lastOp.name = "getFileImpact"
     THEN result.recentCommits =
            Cardinality({ h \in DOMAIN commits :
                            lastOp.arg \in Range(ReaderCommits[h].filesChanged) })
     ELSE TRUE



\* ------------------------------------------------------------------------
\* createTask: what is stored and what is returned
\* ------------------------------------------------------------------------
CreateTaskNames == {"Build login api", "Fix auth session test", "Deploy release"}

CreateCreateTask ==
  \E name \in CreateTaskNames, startTime \in 0..1 :
    createTask([id |-> <<"task", Cardinality(DOMAIN tasks)>>, name |-> name,
                startTime |-> startTime, endTime |-> MaxTime])

NextCreate == CreateCreateTask

SpecCreate == Init /\ [][NextCreate]_vars

\* C27: createTask of a task with name, startTime and endTime stores exactly
\* one Task node, with status pending and one REQUIRES_SKILL edge per matched
\* skill, and returns that task
C27_CreateTaskReturnsTask ==
  IF lastOp.name = "createTask"
  THEN LET task == lastOp.arg
           hit == TaskNodesWithId(task.id)
       IN  /\ Cardinality(hit) = 1
           /\ \A n \in hit :
                /\ tasks[n].status = "pending"
                /\ \A sk \in skills \cup Range(extractSkills(task.name)) :
                     CopiesIn(<<n, sk>>, requiresSkill)
                       = IF sk \in Range(extractSkills(task.name)) THEN 1 ELSE 0
                /\ lastOp.returned # << >>
                /\ \A i \in 1..Len(lastOp.returned) : lastOp.returned[i] = tasks[n]
  ELSE TRUE



\* ------------------------------------------------------------------------
\* storeCommit: the links of the stored commit
\* ------------------------------------------------------------------------
\* C28: after storeCommit(commit) the Commit node has a MODIFIES edge to each
\* changed file and a DEMONSTRATES edge to each skill inferred from the message
\* and the changed files, whatever the commit
C28_StoreCommitLinksAll ==
  IF lastOp.name = "storeCommit"
  THEN LET commit == lastOp.arg
           inferred == Range(extractSkills(commit.message))
                         \cup Range(SkillsOfFiles(commit.filesChanged))
       IN  /\ commit.hash \in DOMAIN commits
           /\ \A fileName \in Range(commit.filesChanged) :
                BagIn(<<commit.hash, fileName>>, modifies)
           /\ \A sk \in inferred : BagIn(<<commit.hash, sk>>, demonstrates)
  ELSE TRUE



\* ------------------------------------------------------------------------
\* runQuery while closeDriver is in flight
\* ------------------------------------------------------------------------
\* C29: a runQuery that begins once closeDriver has started closing a handle
\* opens its session on a fresh handle, never on the handle being closed
C29_NoSessionOnClosingHandle ==
  IF lastOp.name = "runQuery"
  THEN ~lastOp.threw => handles[result] = "open"
  ELSE TRUE



\* ------------------------------------------------------------------------
\* handleReschedule(tasksToReschedule, targetDate)
\* ------------------------------------------------------------------------
MaxRescheduleTasks == 2
MaxTargetDate == 1

\* newStart = targetDate at start's hours and minutes; newEnd = newStart + (end - start);
\* the body of the PUT request
rescheduleBody(task, targetDate) ==
  LET durationMs == task.endTime - task.startTime
      newStart == targetDate * DayTicks + (task.startTime % DayTicks)
      newEnd == newStart + durationMs
  IN  [id |-> <<task.id>>, startTime |-> <<newStart>>, endTime |-> <<newEnd>>,
       status |-> <<"pending">>, lastActivity |-> << << >> >>, isStale |-> <<FALSE>>]

\* await fetch('/api/tasks', { method: 'PUT', ... }) as the route serves it
reschedulePut(mode, task, targetDate) ==
  IF mode = "live"
  THEN PutLive(rescheduleBody(task, targetDate), TRUE)
  ELSE PutDemo(rescheduleBody(task, targetDate))

\* the tasks the page holds, as the selection passes them on
shownTasks(mode) ==
  IF mode = "live"
  THEN { [id |-> tasks[n].id, startTime |-> tasks[n].startTime, endTime |-> tasks[n].endTime] :
           n \in DOMAIN tasks }
  ELSE { [id |-> mockTasks[i].id, startTime |-> mockTasks[i].startTime,
          endTime |-> mockTasks[i].endTime] : i \in 1..Len(mockTasks) }

Selections(shown) ==
  { <<a>> : a \in shown } \cup { <<p[1], p[2]>> : p \in { q \in shown \X shown : q[1] # q[2] } }

\* no reschedule is between two of its requests
rescheduleDone ==
  IF lastOp.name = "handleReschedule" THEN lastOp.sent = Len(lastOp.selection) ELSE TRUE

\* the first turn of for (const task of tasksToReschedule)
handleReschedule(tasksToReschedule, targetDate, mode) ==
  /\ rescheduleDone
  /\ reschedulePut(mode, tasksToReschedule[1], targetDate)
  /\ lastOp' = [name |-> "handleReschedule", mode |-> mode,
                selection |-> tasksToReschedule, targetDate |-> targetDate, sent |-> 1]

\* a later turn of the loop
handleRescheduleNext ==
  /\ ~rescheduleDone
  /\ reschedulePut(lastOp.mode, lastOp.selection[lastOp.sent + 1], lastOp.targetDate)
  /\ lastOp' = [lastOp EXCEPT !.sent = @ + 1]

RescheduleCreateTask ==
  /\ rescheduleDone
  /\ Cardinality(DOMAIN tasks) < MaxRescheduleTasks
  /\ \E startTime \in 0..(DayTicks - 1) :
       createTask([id |-> <<"task", Cardinality(DOMAIN tasks)>>, name |-> "Build login api",
                   startTime |-> startTime, endTime |-> startTime + 1])

RescheduleUpdateTaskStatus ==
  /\ rescheduleDone
  /\ \E n \in DOMAIN tasks : updateTaskStatus(tasks[n].id, "completed")

ReschedulePostDemo ==
  /\ rescheduleDone
  /\ Len(mockTasks) < MaxRescheduleTasks
  /\ \E startTime \in 0..(DayTicks - 1) :
       LET body == [id |-> << >>, name |-> <<"Build login api">>,
                    startTime |-> <<startTime>>, endTime |-> <<startTime + 1>>,
                    status |-> <<"in_progress">>]
       IN  /\ PostDemo(body)
           /\ lastOp' = [name |-> "POST", mode |-> "demo", body |-> body]

RescheduleSelected ==
  \E mode \in {"live", "demo"}, targetDate \in 0..MaxTargetDate :
    \E selection \in Selections(shownTasks(mode)) :
      handleReschedule(selection, targetDate, mode)

NextReschedule ==
  \/ RescheduleCreateTask
  \/ RescheduleUpdateTaskStatus
  \/ ReschedulePostDemo
  \/ RescheduleSelected
  \/ handleRescheduleNext

SpecReschedule == InitApi /\ [][NextReschedule]_vars

storedTasks(mode, id) ==
  IF mode = "live" THEN { tasks[n] : n \in TaskNodesWithId(id) }
  ELSE { mockTasks[i] : i \in { j \in 1..Len(mockTasks) : mockTasks[j].id = id } }

noLastActivity(task) ==
  IF "lastActivity" \in DOMAIN task THEN task.lastActivity = << >> ELSE TRUE

notStale(task) == IF "isStale" \in DOMAIN task THEN ~task.isStale ELSE TRUE

\* C30: when handleReschedule has completed, every selected task is stored with
\* a startTime on targetDate at its original time of day, its duration
\* unchanged, status pending, no lastActivity and isStale false, in live and in
\* demo mode
C30_RescheduledOnTargetDate ==
  IF lastOp.name = "handleReschedule"
  THEN rescheduleDone =>
         \A i \in 1..Len(lastOp.selection) :
           LET old == lastOp.selection[i]
               stored == storedTasks(lastOp.mode, old.id)
           IN  /\ stored # {}
               /\ \A task \in stored :
                    /\ dateOf(task.startTime) = lastOp.targetDate
                    /\ task.startTime % DayTicks = old.startTime % DayTicks
                    /\ task.endTime - task.startTime = old.endTime - old.startTime
                    /\ task.status = "pending"
                    /\ noLastActivity(task)
                    /\ notStale(task)
  ELSE TRUE


====
